---- MODULE Spec2Model ----
(***************************************************************************)
(* A model of the dbt command runner of dbt-cli-mcp (src/src/command.py):  *)
(* the process runner execute_dbt_command with its environment handling,   *)
(* and the decoding of the captured standard output.                       *)
(*                                                                         *)
(* Texts are sequences of one-character strings, so that strip, startswith,*)
(* substring search and JSON parsing are computed and not assumed.  Python *)
(* values are tagged records [t, v].                                       *)
(***************************************************************************)
EXTENDS Integers, Sequences, FiniteSets, TLC

(***************************************************************************)
(* Python values                                                           *)
(***************************************************************************)
PyNone == [t |-> "none", v |-> 0]
PyBool(b) == [t |-> "bool", v |-> b]
PyInt(n) == [t |-> "int", v |-> n]
PyBytes(text) == [t |-> "bytes", v |-> text]
PyStr(s) == [t |-> "str", v |-> s]
PyList(xs) == [t |-> "list", v |-> xs]
PyDict(kvs) == [t |-> "dict", v |-> kvs]

IsStr(x) == x.t = "str"
IsList(x) == x.t = "list"
IsDict(x) == x.t = "dict"

\* key in d, for a dict d kept as a sequence of [k, v] pairs in insertion order
HasKey(d, key) == \E n \in 1..Len(d.v) : d.v[n].k = key

\* d[key] = val on a sequence of pairs: an existing key keeps its place
DictSet(kvs, key, val) ==
    IF \E n \in 1..Len(kvs) : kvs[n].k = key
    THEN [n \in 1..Len(kvs) |-> IF kvs[n].k = key THEN [k |-> key, v |-> val] ELSE kvs[n]]
    ELSE Append(kvs, [k |-> key, v |-> val])

(***************************************************************************)
(* str methods                                                             *)
(***************************************************************************)
\* the characters str.strip() removes that occur in the modelled alphabet
PyWhitespace == {" ", "\n", "\t", "\r", "\f"}

RECURSIVE LStripFrom(_, _)
LStripFrom(s, i) ==
    IF i <= Len(s) /\ s[i] \in PyWhitespace THEN LStripFrom(s, i + 1) ELSE i

RECURSIVE RStripFrom(_, _)
RStripFrom(s, j) ==
    IF j >= 1 /\ s[j] \in PyWhitespace THEN RStripFrom(s, j - 1) ELSE j

strip(s) == SubSeq(s, LStripFrom(s, 1), RStripFrom(s, Len(s)))

HasAt(s, i, lit) ==
    /\ i >= 1
    /\ i + Len(lit) - 1 <= Len(s)
    /\ SubSeq(s, i, i + Len(lit) - 1) = lit

startswith(s, prefix) == HasAt(s, 1, prefix)

\* sub in s
Contains(sub, s) == \E i \in 1..(Len(s) + 1) : HasAt(s, i, sub)

(***************************************************************************)
(* json.loads: the recursive-descent scanner of the standard library, on   *)
(* the JSON subset the alphabet can write (null, true, false, integers,    *)
(* strings with the escapes \" \\ \/ \n \t \r \f \u001b, arrays, objects). *)
(***************************************************************************)
JsonWhitespace == {" ", "\t", "\n", "\r"}
Digits == {"0", "1", "2", "3", "4", "5", "6", "7", "8", "9"}
\* "ESC" is the one character U+001B
\* a decoder that lets the escape character through inside a string
ControlCharsWithoutEscape == {"\n", "\t", "\r", "\f"}

ControlChars == {"\n", "\t", "\r", "\f", "ESC"}

DigitVal(c) ==
    CASE c = "0" -> 0 [] c = "1" -> 1 [] c = "2" -> 2 [] c = "3" -> 3
      [] c = "4" -> 4 [] c = "5" -> 5 [] c = "6" -> 6 [] c = "7" -> 7
      [] c = "8" -> 8 [] c = "9" -> 9

JFail == [ok |-> FALSE, val |-> PyNone, end |-> 0]
JOk(val, end) == [ok |-> TRUE, val |-> val, end |-> end]

\* the position of the first character from i on that is no whitespace
SkipWs(s, i) ==
    IF i > Len(s) THEN i
    ELSE CHOOSE j \in i..(Len(s) + 1) :
             /\ j = Len(s) + 1 \/ s[j] \notin JsonWhitespace
             /\ \A k \in i..(j - 1) : s[k] \in JsonWhitespace

CharAt(s, i) == IF i >= 1 /\ i <= Len(s) THEN s[i] ELSE "EOF"

\* the backslash at j opens an escape of the string that begins at i: the
\* backslashes directly before it, from i on, pair up
EscapeAt(s, i, j) ==
    /\ j >= i /\ j <= Len(s) /\ s[j] = "\\"
    /\ LET others == {k \in i..(j - 1) : s[k] # "\\"}
           last == IF others = {} THEN i - 1
                   ELSE CHOOSE k \in others : \A m \in others : m <= k
       IN  (j - 1 - last) % 2 = 0

\* the escape that opens at j is one that py_scanstring decodes
EscapeDecodes(s, j) ==
    \/ CharAt(s, j + 1) \in {"\"", "\\", "/", "n", "t", "r", "f"}
    \/ HasAt(s, j + 1, <<"u", "0", "0", "1", "b">>)

\* the character at j belongs to an escape that opens before j
InEscape(s, i, j) ==
    \/ EscapeAt(s, i, j - 1)
    \/ \E k \in (j - 5)..(j - 2) : EscapeAt(s, i, k) /\ CharAt(s, k + 1) = "u"

\* what the character at j adds to the decoded string
DecodedAt(s, i, j) ==
    IF InEscape(s, i, j) THEN <<>>
    ELSE IF ~EscapeAt(s, i, j) THEN <<s[j]>>
    ELSE LET e == s[j + 1] IN
         CASE e = "n" -> <<"\n">>
           [] e = "t" -> <<"\t">>
           [] e = "r" -> <<"\r">>
           [] e = "f" -> <<"\f">>
           [] e = "u" -> <<"ESC">>
           [] OTHER -> <<e>>

\* the decoded characters of the positions lo..hi
RECURSIVE DecodedFromTo(_, _, _, _)
DecodedFromTo(s, i, lo, hi) ==
    IF lo > hi THEN <<>>
    ELSE IF lo = hi THEN DecodedAt(s, i, lo)
    ELSE LET mid == (lo + hi) \div 2 IN
         DecodedFromTo(s, i, lo, mid) \o DecodedFromTo(s, i, mid + 1, hi)

\* py_scanstring, strict: from the character after the opening quote
ScanString(s, i) ==
    LET quotes == {j \in i..Len(s) : s[j] = "\"" /\ ~EscapeAt(s, i, j - 1)} IN
    IF quotes = {} THEN JFail
    ELSE LET end == CHOOSE j \in quotes : \A k \in quotes : j <= k IN
         IF \E j \in i..(end - 1) :
                \/ s[j] \in ControlChars
                \/ EscapeAt(s, i, j) /\ ~EscapeDecodes(s, j)
         THEN JFail
         ELSE JOk(PyStr(DecodedFromTo(s, i, i, end - 1)), end + 1)

\* NUMBER_RE, integer part: -?(?:0|[1-9]\d*)
RECURSIVE ScanDigits(_, _, _)
ScanDigits(s, i, n) ==
    IF CharAt(s, i) \in Digits
    THEN ScanDigits(s, i + 1, 10 * n + DigitVal(s[i]))
    ELSE [n |-> n, end |-> i]

ScanNumber(s, i) ==
    LET neg == CharAt(s, i) = "-"
        j == IF neg THEN i + 1 ELSE i
        c == CharAt(s, j)
    IN  IF c \notin Digits THEN JFail
        ELSE IF c = "0" THEN JOk(PyInt(0), j + 1)
        ELSE LET d == ScanDigits(s, j, 0)
             IN  JOk(PyInt(IF neg THEN 0 - d.n ELSE d.n), d.end)

RECURSIVE ScanOnce(_, _)
RECURSIVE JSONArrayItems(_, _, _)
RECURSIVE JSONObjectPairs(_, _, _)

\* JSONArray after "[" and the first value's position
JSONArrayItems(s, i, acc) ==
    LET r == ScanOnce(s, i) IN
    IF ~r.ok THEN JFail
    ELSE LET k == SkipWs(s, r.end)
             c == CharAt(s, k)
         IN  IF c = "]" THEN JOk(PyList(Append(acc, r.val)), k + 1)
             ELSE IF c = "," THEN JSONArrayItems(s, SkipWs(s, k + 1), Append(acc, r.val))
             ELSE JFail

JSONArray(s, i) ==
    LET j == SkipWs(s, i) IN
    IF CharAt(s, j) = "]" THEN JOk(PyList(<<>>), j + 1)
    ELSE JSONArrayItems(s, j, <<>>)

\* JSONObject at the opening quote of a key
JSONObjectPairs(s, i, acc) ==
    LET key == ScanString(s, i + 1) IN
    IF ~key.ok THEN JFail
    ELSE LET k == SkipWs(s, key.end) IN
         IF CharAt(s, k) # ":" THEN JFail
         ELSE LET r == ScanOnce(s, SkipWs(s, k + 1)) IN
              IF ~r.ok THEN JFail
              ELSE LET m == SkipWs(s, r.end)
                       c == CharAt(s, m)
                       pairs == DictSet(acc, key.val.v, r.val)
                   IN  IF c = "}" THEN JOk(PyDict(pairs), m + 1)
                       ELSE IF c = "," THEN
                           LET n == SkipWs(s, m + 1) IN
                           IF CharAt(s, n) = "\"" THEN JSONObjectPairs(s, n, pairs)
                           ELSE JFail
                       ELSE JFail

JSONObject(s, i) ==
    LET j == SkipWs(s, i)
        c == CharAt(s, j)
    IN  IF c = "}" THEN JOk(PyDict(<<>>), j + 1)
        ELSE IF c = "\"" THEN JSONObjectPairs(s, j, <<>>)
        ELSE JFail

ScanOnce(s, i) ==
    LET c == CharAt(s, i) IN
    IF c = "\"" THEN ScanString(s, i + 1)
    ELSE IF c = "{" THEN JSONObject(s, i + 1)
    ELSE IF c = "[" THEN JSONArray(s, i + 1)
    ELSE IF HasAt(s, i, <<"n", "u", "l", "l">>) THEN JOk(PyNone, i + 4)
    ELSE IF HasAt(s, i, <<"t", "r", "u", "e">>) THEN JOk(PyBool(TRUE), i + 4)
    ELSE IF HasAt(s, i, <<"f", "a", "l", "s", "e">>) THEN JOk(PyBool(FALSE), i + 5)
    ELSE ScanNumber(s, i)

\* json.loads(s): [ok |-> FALSE] stands for json.JSONDecodeError
json_loads(s) ==
    LET r == ScanOnce(s, SkipWs(s, 1)) IN
    IF r.ok /\ SkipWs(s, r.end) = Len(s) + 1 THEN r ELSE JFail

(***************************************************************************)
(* The decoding of the captured standard output, command.py lines 124-148  *)
(***************************************************************************)
NameKey == <<"n", "a", "m", "e">>
NameColon == <<"\"", "n", "a", "m", "e", "\"", ":">>

\* all(isinstance(item, dict) and "name" in item for item in json_array)
AllDictsWithName(xs) == \A n \in 1..Len(xs) : IsDict(xs[n]) /\ HasKey(xs[n], NameKey)

\* CloudBranch with the parsed value kept whatever its shape
CloudBranchFallthrough(stdout) ==
    LET r == json_loads(stdout) IN
    IF r.ok THEN r.val ELSE PyStr(stdout)

\* the branch of lines 128-140: the text looks like dbt Cloud CLI output
CloudBranch(stdout) ==
    LET r == json_loads(stdout) IN
    IF r.ok /\ IsList(r.val) /\ AllDictsWithName(r.val.v) THEN r.val ELSE PyStr(stdout)

\* JsonBranch that keeps a parsed value only when it is an object
JsonBranchDictOnly(stdout) ==
    LET r == json_loads(stdout) IN
    IF r.ok /\ IsDict(r.val) THEN r.val ELSE PyStr(stdout)

\* the branch of lines 141-148: standard JSON parsing
JsonBranch(stdout) ==
    LET r == json_loads(stdout) IN
    IF r.ok THEN r.val ELSE PyStr(stdout)

\* the condition of line 128
CloudTrigger(stdout) ==
    startswith(strip(stdout), <<"[">>) /\ Contains(NameColon, stdout)

\* the value of the local variable output after line 148
decode(stdout) ==
    IF CloudTrigger(stdout) THEN CloudBranch(stdout) ELSE JsonBranch(stdout)

(***************************************************************************)
(* Paths and environment mappings                                          *)
(*                                                                         *)
(* A path or an environment value is a sequence of strings, an absolute    *)
(* path one that starts with "/".  A mapping (os.environ, env_vars) is a   *)
(* function from the names that are set to their values.                   *)
(***************************************************************************)
Cwd == <<"/", "srv">>
PwdHome == <<"/", "root">>

RECURSIVE DropDots(_)
DropDots(p) ==
    IF p = <<>> THEN <<>>
    ELSE IF Head(p) = "." THEN DropDots(Tail(p))
    ELSE <<Head(p)>> \o DropDots(Tail(p))

\* str(Path(p).resolve())
resolve(p) ==
    IF p # <<>> /\ Head(p) = "/" THEN DropDots(p) ELSE Cwd \o DropDots(p)

EmptyEnv == [n \in {} |-> <<>>]
EnvSet(env, name, val) ==
    [n \in DOMAIN env \cup {name} |-> IF n = name THEN val ELSE env[n]]
\* a.update(b)
EnvUpdate(a, b) ==
    [n \in DOMAIN a \cup DOMAIN b |-> IF n \in DOMAIN b THEN b[n] ELSE a[n]]

\* str(Path(p)): the empty components a doubled or trailing slash leaves
\* and the components "." are dropped; what is left of an empty path is "."
PathStr(p) ==
    LET Kept(c) == c \notin {"", "."}
        Normal(q) == IF q = <<>> THEN <<".">> ELSE q
    IN  IF p = <<>> THEN <<".">>
        ELSE IF Head(p) = "/" THEN <<"/">> \o SelectSeq(Tail(p), Kept)
        ELSE Normal(SelectSeq(p, Kept))

\* HOME as it was, taken for the home directory without Path()
PathHomeVerbatim(environ) ==
    IF "HOME" \in DOMAIN environ THEN environ["HOME"] ELSE PwdHome

\* str(Path.home()), that is str(Path(os.path.expanduser("~"))): the HOME
\* variable when it is set, "/" for an empty one, else the home directory
\* of the password database
PathHome(environ) ==
    IF "HOME" \notin DOMAIN environ THEN PwdHome
    ELSE IF environ["HOME"] = <<>> THEN <<"/">>
    ELSE PathStr(environ["HOME"])

(***************************************************************************)
(* The file system: the project directories and their environment files    *)
(***************************************************************************)
ProjA == <<"projA">>
ProjB == <<"/", "work", "projB">>
ProjC == <<".">>
ProjectDirs == {ProjA, ProjB, ProjC}

NoFile == [exists |-> FALSE, vars |-> EmptyEnv]
\* the .env file of tests/test_command.py lines 20-26
EnvFileA ==
    [exists |-> TRUE,
     vars |-> [n \in {"TEST_VAR", "DBT_PROFILES_DIR"} |->
                  IF n = "TEST_VAR" THEN <<"test_value">>
                  ELSE <<"/", "path", "to", "profiles">>]]
EnvFileC == [exists |-> TRUE, vars |-> [n \in {"TEST_VAR"} |-> <<"c_value">>]]

\* (Path(project_dir) / env_file), read
EnvFileOf(project_dir, env_file) ==
    IF env_file # ".env" THEN NoFile
    ELSE IF project_dir = ProjA THEN EnvFileA
    ELSE IF project_dir = ProjC THEN EnvFileC
    ELSE NoFile

\* load_dotenv with override=True: the file's value wins
load_dotenv_override(environ, file) ==
    [n \in DOMAIN environ \cup DOMAIN file.vars |->
        IF n \in DOMAIN file.vars THEN file.vars[n] ELSE environ[n]]

\* dotenv.load_dotenv(dotenv_path=f), override=False: a name already in
\* os.environ keeps its value
load_dotenv(environ, file) ==
    [n \in DOMAIN environ \cup DOMAIN file.vars |->
        IF n \in DOMAIN environ THEN environ[n] ELSE file.vars[n]]

(***************************************************************************)
(* load_environment and the environment set-up of execute_dbt_command      *)
(***************************************************************************)
\* load_environment(project_dir), lines 34-50: the mapping it returns and
\* os.environ as load_dotenv leaves it
load_environment(environ, project_dir, env_file) ==
    LET file == EnvFileOf(project_dir, env_file)
        copy == environ
        withHome == IF "HOME" \notin DOMAIN copy
                    THEN EnvSet(copy, "HOME", PathHome(environ))
                    ELSE copy
        environ1 == IF file.exists THEN load_dotenv(environ, file) ELSE environ
    IN  [env_vars |-> IF file.exists THEN EnvUpdate(withHome, environ1) ELSE withHome,
         environ |-> environ1]

NoProfilesDir == [given |-> FALSE, path |-> <<>>]
ProfilesDir(p) == [given |-> TRUE, path |-> p]

\* lines 86-101: os.environ after DBT_PROFILES_DIR is set
SetProfilesDir(environ, env_vars, project_dir, profiles_dir) ==
    IF profiles_dir.given
    THEN EnvSet(environ, "DBT_PROFILES_DIR", resolve(profiles_dir.path))
    ELSE IF "DBT_PROFILES_DIR" \in DOMAIN env_vars
    THEN EnvSet(environ, "DBT_PROFILES_DIR", env_vars["DBT_PROFILES_DIR"])
    ELSE EnvSet(environ, "DBT_PROFILES_DIR", resolve(project_dir))

\* line 104 left out: the child gets the mapping load_environment returned
UpdateEnvVarsSkipped(env_vars, environ) == env_vars

\* line 104: env_vars.update(os.environ)
UpdateEnvVars(env_vars, environ) == EnvUpdate(env_vars, environ)

\* lines 79-104: the mapping handed to the child and os.environ afterwards
PrepareEnvironment(environ, project_dir, profiles_dir, env_file) ==
    LET loaded == load_environment(environ, project_dir, env_file)
        environ1 == EnvSet(loaded.environ, "HOME", PathHome(loaded.environ))
        environ2 == SetProfilesDir(environ1, loaded.env_vars, project_dir, profiles_dir)
    IN  [env_vars |-> UpdateEnvVars(loaded.env_vars, environ2), environ |-> environ2]

(***************************************************************************)
(* The result of an invocation                                             *)
(***************************************************************************)
Bytes(text) == [utf8 |-> TRUE, text |-> text]
\* a byte string that is not valid UTF-8
BadBytes == [utf8 |-> FALSE, text |-> <<>>]

\* MakeResult with the output dropped when the command failed
MakeResultSuppressed(returncode, stdout, stderr) ==
    LET success == (returncode = 0) IN
    [success |-> success,
     output |-> IF success THEN decode(stdout) ELSE PyNone,
     error |-> IF ~success THEN PyStr(stderr) ELSE PyNone,
     returncode |-> returncode]

\* MakeResult with error = stderr or None
MakeResultErrorOrNone(returncode, stdout, stderr) ==
    LET success == (returncode = 0) IN
    [success |-> success,
     output |-> decode(stdout),
     error |-> IF ~success /\ stderr # <<>> THEN PyStr(stderr) ELSE PyNone,
     returncode |-> returncode]

\* lines 150-155
MakeResult(returncode, stdout, stderr) ==
    LET success == (returncode = 0) IN
    [success |-> success,
     output |-> decode(stdout),
     error |-> IF ~success THEN PyStr(stderr) ELSE PyNone,
     returncode |-> returncode]

ExcMessage(e) ==
    CASE e = "FileNotFoundError" -> <<"[Errno 2] No such file or directory: 'dbt'">>
      [] e = "PermissionError" -> <<"[Errno 13] Permission denied: 'dbt'">>
      [] e = "UnicodeDecodeError" ->
             <<"'utf-8' codec can't decode byte 0xff in position 0: invalid start byte">>

\* ExceptResult that reports the failure as an ordinary command failure
ExceptResultAsCommandFailure(e) ==
    [success |-> FALSE,
     output |-> PyStr(<<>>),
     error |-> PyStr(ExcMessage(e)),
     returncode |-> 1]

\* lines 166-175: what except Exception returns
ExceptResult(e) ==
    [success |-> FALSE,
     output |-> PyNone,
     error |-> PyStr(ExcMessage(e) \o <<"\n", "Stack trace: ">>
                     \o <<"Traceback (most recent call last): ">> \o <<e>>),
     returncode |-> -1]

\* lines 119-175, once communicate() has returned: the result and the
\* exception the except clause caught, if any
AfterCommunicate(returncode, stdout_bytes, stderr_bytes) ==
    IF ~stdout_bytes.utf8 \/ ~stderr_bytes.utf8
    THEN [result |-> ExceptResult("UnicodeDecodeError"), exc |-> "UnicodeDecodeError"]
    ELSE [result |-> MakeResult(returncode, stdout_bytes.text, stderr_bytes.text),
          exc |-> "none"]

(***************************************************************************)
(* The state                                                               *)
(***************************************************************************)
NumTasks == 2
Tasks == 1..NumTasks

VARIABLES
    os_environ,   \* the process-wide environment
    environ0,     \* os.environ when the process started
    config,       \* the configuration store
    pc,           \* where each invocation is
    args,         \* the arguments of each invocation
    child,        \* the child process of each invocation
    result,       \* the CommandResult each invocation returned
    exc,          \* the exception each invocation caught at line 166
    call          \* a call of one of the functions that work on the output

vars == <<os_environ, environ0, config, pc, args, child, result, exc, call>>

\* no function has been called on an output
NoCall == [fn |-> "none", input |-> PyNone, output_format |-> "json",
           raised |-> "none", output |-> PyNone]

NoArgs == [command |-> <<>>, project_dir |-> <<>>, profiles_dir |-> NoProfilesDir]
NoChild ==
    [launched |-> FALSE, argv |-> <<>>, cwd |-> <<>>, env |-> EmptyEnv,
     exited |-> FALSE, returncode |-> 0, stdout |-> Bytes(<<>>), stderr |-> Bytes(<<>>)]
NoResult == [success |-> FALSE, output |-> PyNone, error |-> PyNone, returncode |-> 0]

InitialEnvirons ==
    { EmptyEnv,
      [n \in {"HOME"} |-> <<"/", "home", "u">>],
      [n \in {"HOME", "DBT_PROFILES_DIR"} |->
          IF n = "HOME" THEN <<"/", "home", "u">> ELSE <<"/", "preset">>] }

InitWith(environs) ==
    /\ os_environ \in environs
    /\ environ0 = os_environ
    /\ config = [dbt_path |-> "dbt", env_file |-> ".env"]
    /\ pc = [i \in Tasks |-> "idle"]
    /\ args = [i \in Tasks |-> NoArgs]
    /\ child = [i \in Tasks |-> NoChild]
    /\ result = [i \in Tasks |-> NoResult]
    /\ exc = [i \in Tasks |-> "none"]

Init == InitWith(InitialEnvirons) /\ call = NoCall

(***************************************************************************)
(* The steps of execute_dbt_command                                        *)
(***************************************************************************)
\* a runner that waits for its child with a blocking call: while one
\* invocation waits, no other task runs
CanRunBlocking(i) == \A j \in Tasks \ {i} : pc[j] # "communicate"

\* Invocations are tasks of one event loop: a task runs from one await to
\* the next without interruption, and an await (lines 110, 119) suspends
\* only the task that awaits.
CanRun(i) == \A j \in Tasks \ {i} : pc[j] \in {"idle", "communicate", "returned"}

\* a runner that calls again an invocation that returned a failure
CallGuardRetry(i) ==
    /\ \/ pc[i] = "idle"
       \/ pc[i] = "returned" /\ ~result[i].success
    /\ \A j \in Tasks : j < i => pc[j] # "idle"
    /\ CanRun(i)

\* when the call of invocation i can run: invocations are numbered in the
\* order in which they are called
CallGuard(i) ==
    /\ pc[i] = "idle"
    /\ \A j \in Tasks : j < i => pc[j] # "idle"
    /\ CanRun(i)

\* when invocation i can resume from communicate(): what its child wrote
\* and its exit status are the action's inputs
CommunicateGuard(i) ==
    /\ pc[i] = "communicate"
    /\ CanRun(i)

\* lines 75-116: from the call to the child's creation.  The subprocess
\* transport creates the child in its constructor, before the first
\* suspension, so the step is not interrupted.  spawn is "ok" or the
\* exception create_subprocess_exec raises.
Call(i, command, project_dir, profiles_dir, spawn) ==
    /\ CallGuard(i)
    /\ LET full_command == <<config.dbt_path>> \o command
           prepared == PrepareEnvironment(os_environ, project_dir, profiles_dir,
                                          config.env_file)
       IN  /\ os_environ' = prepared.environ
           /\ args' = [args EXCEPT ![i] = [command |-> command,
                                           project_dir |-> project_dir,
                                           profiles_dir |-> profiles_dir]]
           /\ IF spawn = "ok"
              THEN /\ child' = [child EXCEPT ![i] =
                                   [NoChild EXCEPT !.launched = TRUE,
                                                   !.argv = full_command,
                                                   !.cwd = project_dir,
                                                   !.env = prepared.env_vars]]
                   /\ pc' = [pc EXCEPT ![i] = "communicate"]
                   /\ UNCHANGED <<result, exc>>
              ELSE /\ result' = [result EXCEPT ![i] = ExceptResult(spawn)]
                   /\ exc' = [exc EXCEPT ![i] = spawn]
                   /\ pc' = [pc EXCEPT ![i] = "returned"]
                   /\ UNCHANGED child
    /\ UNCHANGED <<environ0, config, call>>

\* lines 157, 166-175: invocation i returns after.result, having caught
\* after.exc
ReturnsAfter(i, after) ==
    /\ result' = [result EXCEPT ![i] = after.result]
    /\ exc' = [exc EXCEPT ![i] = after.exc]

\* lines 119-175: the child exits with returncode and the two captured
\* streams, communicate() returns them and the invocation returns
Communicate(i, returncode, stdout_bytes, stderr_bytes) ==
    /\ CommunicateGuard(i)
    /\ ReturnsAfter(i, AfterCommunicate(returncode, stdout_bytes, stderr_bytes))
    /\ child' = [child EXCEPT ![i].exited = TRUE,
                              ![i].returncode = returncode,
                              ![i].stdout = stdout_bytes,
                              ![i].stderr = stderr_bytes]
    /\ pc' = [pc EXCEPT ![i] = "returned"]
    /\ UNCHANGED <<os_environ, environ0, config, args, call>>

(***************************************************************************)
(* Inputs                                                                  *)
(***************************************************************************)
Commands == {<<"run">>, <<"ls", "--output", "json">>}
ProfilesDirs == {NoProfilesDir, ProfilesDir(<<"profiles1">>), ProfilesDir(<<"/", "etc", "p2">>)}
SpawnOutcomes == {"ok", "FileNotFoundError", "PermissionError"}
\* a negative status -N is a child killed by signal N
ExitCodes == {0, 1, -1}

TextTestData == <<"{", "\"", "t", "e", "s", "t", "\"", ":", " ", "\"", "d", "a", "t", "a", "\"", "}">>
TextLines == <<"a", "\n", "b", "\n">>
TextBoom == <<"b", "o", "o", "m">>
TextNull == <<"n", "u", "l", "l">>
TextString == <<"\"", "a", "b", "c", "\"">>
\* [1,{"name":1}]
TextMixed == <<"[", "1", ",", "{", "\"", "n", "a", "m", "e", "\"", ":", "1", "}", "]">>
\* [{"name":"model1"},{"name":"model2"}]
TextModels == <<"[", "{", "\"", "n", "a", "m", "e", "\"", ":", "\"", "m", "o", "d", "e", "l", "1", "\"", "}", ",", "{", "\"", "n", "a", "m", "e", "\"", ":", "\"", "m", "o", "d", "e", "l", "2", "\"", "}", "]">>
\* a form feed before [{"name":1}]
TextFormFeed == <<"\f", "[", "{", "\"", "n", "a", "m", "e", "\"", ":", "1", "}", "]">>
\* {"nodes":{"a":{"name":"X"}}}
TextNodes == <<"{", "\"", "n", "o", "d", "e", "s", "\"", ":", "{", "\"", "a", "\"", ":", "{", "\"", "n", "a", "m", "e", "\"", ":", "\"", "X", "\"", "}", "}", "}">>

\* {"name":1} and {"a":{"name":1}}
TokNamed == <<"{", "\"", "n", "a", "m", "e", "\"", ":", "1", "}">>
TokNested == <<"{", "\"", "a", "\"", ":", "{", "\"", "n", "a", "m", "e", "\"", ":", "1", "}", "}">>
Tokens == {<<"[">>, <<"]">>, <<",">>, <<"1">>, <<"x">>, <<" ">>, TokNamed, TokNested}

MaxTokens == 3

RECURSIVE Flatten(_)
Flatten(ts) == IF ts = <<>> THEN <<>> ELSE Head(ts) \o Flatten(Tail(ts))

\* every text written with at most MaxTokens tokens
GeneratedTexts == {Flatten(ts) : ts \in UNION {[1..k -> Tokens] : k \in 0..MaxTokens}}

ExtraTexts ==
    {TextTestData, TextLines, TextNull, TextString, TextMixed, TextModels,
     TextFormFeed, TextNodes}

StdoutStreams == {Bytes(t) : t \in GeneratedTexts \cup ExtraTexts} \cup {BadBytes}
StderrStreams == {Bytes(<<>>), Bytes(TextBoom), BadBytes}

\* what a child of the concurrent specification may do
SmallOutcomes ==
    { [returncode |-> 0, stdout |-> Bytes(TextTestData), stderr |-> Bytes(<<>>)],
      [returncode |-> 1, stdout |-> Bytes(TextLines), stderr |-> Bytes(TextBoom)],
      [returncode |-> 1, stdout |-> BadBytes, stderr |-> Bytes(<<>>)] }

(***************************************************************************)
(* Spec: invocations of one process, one after another or in flight        *)
(* together, over the project directories and profile directories          *)
(***************************************************************************)
Next ==
    \/ \E i \in {j \in Tasks : CallGuard(j)} :
          \E d \in ProjectDirs, p \in ProfilesDirs, sp \in {"ok", "FileNotFoundError"} :
             Call(i, <<"run">>, d, p, sp)
    \/ \E i \in {j \in Tasks : CommunicateGuard(j)} :
          \E o \in SmallOutcomes : Communicate(i, o.returncode, o.stdout, o.stderr)

Spec == Init /\ [][Next]_vars

(***************************************************************************)
(* SpecRun: one invocation with the default directories, as in             *)
(* execute_dbt_command(["run"]), over every exit status and every captured *)
(* stream                                                                  *)
(***************************************************************************)
InitRun == InitWith({[n \in {"HOME"} |-> <<"/", "home", "u">>]}) /\ call = NoCall

NextRun ==
    \/ \E i \in {j \in {1} : CallGuard(j)} :
          \E c \in Commands, sp \in SpawnOutcomes :
             Call(i, c, <<".">>, NoProfilesDir, sp)
    \/ \E i \in {j \in {1} : CommunicateGuard(j)} :
          \E rc \in ExitCodes, out \in StdoutStreams, err \in StderrStreams :
             Communicate(i, rc, out, err)

SpecRun == InitRun /\ [][NextRun]_vars
(***************************************************************************)
(* The claims about one invocation (SpecRun)                               *)
(***************************************************************************)
\* C1: for every invocation whose child was launched and exited with status
\* c and whose captured streams are the texts s and e, the returned
\* CommandResult is exactly {success: c = 0, returncode: c, output:
\* decode(s), error: e if c # 0 else null}; the output does not depend on c.
C1_ResultOfExitedChild ==
    \A i \in Tasks :
        (pc[i] = "returned" /\ child[i].exited
            /\ child[i].stdout.utf8 /\ child[i].stderr.utf8) =>
        LET c == child[i].returncode
            s == child[i].stdout.text
            e == child[i].stderr.text
        IN  /\ result[i].success = (c = 0)
            /\ result[i].returncode = c
            /\ result[i].output = decode(s)
            /\ result[i].error = (IF c # 0 THEN PyStr(e) ELSE PyNone)

\* a failed command whose standard output was JSON: the parsed value is kept
C1_Witness ==
    \E i \in Tasks :
        /\ pc[i] = "returned" /\ child[i].exited
        /\ child[i].returncode = 1
        /\ child[i].stdout = Bytes(TextTestData)
        /\ result[i].output.t = "dict"
        /\ result[i].error = PyStr(TextBoom)

\* C2: every CommandResult returned, on every path, has error non-null if
\* and only if success is false.
C2_ErrorIffFailure ==
    \A i \in Tasks :
        pc[i] = "returned" => ((result[i].error # PyNone) <=> ~result[i].success)

\* a child that exited non-zero and wrote nothing to its standard error
C2_Witness ==
    \E i \in Tasks :
        /\ pc[i] = "returned" /\ child[i].exited
        /\ child[i].returncode # 0
        /\ child[i].stderr = Bytes(<<>>)
        /\ ~result[i].success
        /\ result[i].error = PyStr(<<>>)

\* C3: when the child cannot be spawned, the invocation returns success =
\* false, returncode = -1, output = null and as error a non-empty string
\* that contains the exception's message.
C3_LaunchFailure ==
    \A i \in Tasks :
        (pc[i] # "idle" /\ ~child[i].launched) =>
            /\ pc[i] = "returned"
            /\ exc[i] \in {"FileNotFoundError", "PermissionError"}
            /\ result[i].success = FALSE
            /\ result[i].returncode = -1
            /\ result[i].output = PyNone
            /\ IsStr(result[i].error)
            /\ result[i].error.v # <<>>
            /\ Contains(ExcMessage(exc[i]), result[i].error.v)

C3_Witness ==
    \E i \in Tasks :
        pc[i] = "returned" /\ ~child[i].launched /\ exc[i] = "PermissionError"

\* C4: whenever the child was launched and exited, returncode is its real
\* exit status and output is populated from its standard output, also when
\* decoding a stream fails; returncode = -1 with output = null is returned
\* only when the child could not be launched.
C4_SentinelOnlyForLaunchFailure ==
    \A i \in Tasks :
        (pc[i] = "returned" /\ child[i].launched) =>
            /\ result[i].returncode = child[i].returncode
            /\ child[i].stdout.utf8 => result[i].output = decode(child[i].stdout.text)
            /\ ~child[i].stdout.utf8 => result[i].output # PyNone

\* C9: where the decoding ran, it agrees with the reference: a well-formed
\* JSON text that does not both start (trimmed) with "[" and contain
\* "name": is decoded to its parsed value, and a text that is not
\* well-formed JSON (the empty text too) is returned unchanged.
C9_DecodeAgreesWithReference ==
    \A i \in Tasks :
        (pc[i] = "returned" /\ child[i].exited /\ exc[i] = "none") =>
        LET T == child[i].stdout.text
            parsed == json_loads(T)
            trigger == startswith(strip(T), <<"[">>) /\ Contains(NameColon, T)
        IN  /\ (parsed.ok /\ ~trigger) => result[i].output = parsed.val
            /\ ~parsed.ok => result[i].output = PyStr(T)

\* an array that is well-formed JSON and does not contain "name":
C9_Witness ==
    \E i \in Tasks :
        /\ pc[i] = "returned" /\ child[i].exited /\ exc[i] = "none"
        /\ child[i].stdout = Bytes(<<"[", "1", "]">>)
        /\ result[i].output = PyList(<<PyInt(1)>>)

\* C10 as claimed: the raw standard output is returned as output only if
\* it is not well-formed JSON.
C10_RawOnlyIfNotJson ==
    \A i \in Tasks :
        (pc[i] = "returned" /\ child[i].exited /\ exc[i] = "none") =>
        LET T == child[i].stdout.text IN
        result[i].output = PyStr(T) => ~json_loads(T).ok

\* C10 as amended: the raw standard output is returned as output exactly
\* when it is not well-formed JSON, or it satisfies the cloud-log trigger
\* and is not an array whose every element is an object with a name key.
C10_RawIffNotJsonOrTriggeredOtherShape ==
    \A i \in Tasks :
        (pc[i] = "returned" /\ child[i].exited /\ exc[i] = "none") =>
        LET T == child[i].stdout.text
            parsed == json_loads(T)
            trigger == startswith(strip(T), <<"[">>) /\ Contains(NameColon, T)
            cloudShape ==
                /\ parsed.val.t = "list"
                /\ \A n \in 1..Len(parsed.val.v) :
                      /\ parsed.val.v[n].t = "dict"
                      /\ \E m \in 1..Len(parsed.val.v[n].v) :
                            parsed.val.v[n].v[m].k = NameKey
        IN  /\ (result[i].output = PyStr(T))
                  <=> (~parsed.ok \/ (trigger /\ ~cloudShape))
            /\ result[i].output # PyStr(T) => result[i].output = parsed.val

\* an array mixing a scalar with an object that has a name key
C10_Witness ==
    \E i \in Tasks :
        /\ pc[i] = "returned" /\ child[i].exited /\ exc[i] = "none"
        /\ child[i].stdout = Bytes(TextMixed)
        /\ json_loads(TextMixed).ok
        /\ result[i].output = PyStr(TextMixed)
(***************************************************************************)
(* The claims about the environment and about invocations in flight        *)
(* together (Spec)                                                         *)
(***************************************************************************)
\* the profile directory the priority order of the specification gives,
\* from the process environment at the call
ExpectedProfilesDir(environ, a) ==
    LET file == EnvFileOf(a.project_dir, ".env") IN
    IF a.profiles_dir.given THEN resolve(a.profiles_dir.path)
    ELSE IF "DBT_PROFILES_DIR" \in DOMAIN environ THEN environ["DBT_PROFILES_DIR"]
    ELSE IF file.exists /\ "DBT_PROFILES_DIR" \in DOMAIN file.vars
    THEN file.vars["DBT_PROFILES_DIR"]
    ELSE resolve(a.project_dir)

C6_InvocationsIndependent ==
    \A i \in Tasks :
        (child[i].launched /\ ~args[i].profiles_dir.given) =>
            /\ child[i].env =
                   PrepareEnvironment(environ0, args[i].project_dir,
                                      args[i].profiles_dir, config.env_file).env_vars
            /\ ("DBT_PROFILES_DIR" \notin DOMAIN environ0
                    /\ ~EnvFileOf(args[i].project_dir, config.env_file).exists)
                  => child[i].env["DBT_PROFILES_DIR"] = resolve(args[i].project_dir)

\* C7 as claimed, for the interleavings in which it can be observed: when
\* two invocations with different profilesDir are in flight together and the
\* process-wide DBT_PROFILES_DIR holds what the other invocation resolved,
\* the child of the first was launched with that value.
C7_ChildSeesOtherProfilesDir ==
    \A i, j \in Tasks :
        (/\ i # j
         /\ pc[i] = "communicate" /\ pc[j] = "communicate"
         /\ args[i].profiles_dir.given /\ args[j].profiles_dir.given
         /\ resolve(args[i].profiles_dir.path) # resolve(args[j].profiles_dir.path)
         /\ os_environ["DBT_PROFILES_DIR"] = resolve(args[j].profiles_dir.path))
        => child[i].env["DBT_PROFILES_DIR"] = resolve(args[j].profiles_dir.path)

\* C7 as amended: of two invocations with different profilesDir, in flight
\* together or not, each child is launched with the DBT_PROFILES_DIR its own
\* invocation resolved and never with the other's; only the process-wide
\* variable holds the value of the invocation called last.
C7_ChildKeepsOwnProfilesDir ==
    \A i, j \in Tasks :
        (/\ i # j
         /\ child[i].launched /\ child[j].launched
         /\ args[i].profiles_dir.given /\ args[j].profiles_dir.given
         /\ resolve(args[i].profiles_dir.path) # resolve(args[j].profiles_dir.path))
        => /\ child[i].env["DBT_PROFILES_DIR"] = resolve(args[i].profiles_dir.path)
           /\ child[i].env["DBT_PROFILES_DIR"] # resolve(args[j].profiles_dir.path)
           /\ os_environ["DBT_PROFILES_DIR"] \in
                  {resolve(args[k].profiles_dir.path) :
                      k \in {n \in Tasks : pc[n] # "idle" /\ args[n].profiles_dir.given}}

\* two invocations in flight together, the second called with another
\* profilesDir: the process-wide value is the second's
C7_Witness ==
    /\ pc[1] = "communicate" /\ pc[2] = "communicate"
    /\ args[1].profiles_dir = ProfilesDir(<<"profiles1">>)
    /\ args[2].profiles_dir = ProfilesDir(<<"/", "etc", "p2">>)
    /\ os_environ["DBT_PROFILES_DIR"] = <<"/", "etc", "p2">>
    /\ child[1].env["DBT_PROFILES_DIR"] = Cwd \o <<"profiles1">>

\* C8: while the child of an invocation is still running, every other
\* invocation can take its next step (be called, resume from communicate),
\* and every returned CommandResult is made of the exit status and the
\* streams of the invocation's own child.
C8_WaitingBlocksNobody ==
    /\ \A i, j \in Tasks :
          (i # j /\ pc[j] = "communicate") =>
              /\ (pc[i] = "idle" /\ \A k \in Tasks : k < i => pc[k] # "idle")
                    => CallGuard(i)
              /\ pc[i] = "communicate" => CommunicateGuard(i)
    /\ \A i \in Tasks :
          (pc[i] = "returned" /\ child[i].launched) =>
              /\ child[i].exited
              /\ result[i] = AfterCommunicate(child[i].returncode, child[i].stdout,
                                              child[i].stderr).result
              /\ exc[i] = "none" => result[i].returncode = child[i].returncode

\* the first invocation still waits for its child; the second was called
\* after it, launched its own child and has returned that child's result
C8_Witness ==
    /\ pc[1] = "communicate" /\ ~child[1].exited
    /\ pc[2] = "returned" /\ child[2].exited
    /\ result[2].returncode = 1
    /\ result[2].error = PyStr(TextBoom)

(***************************************************************************)
(* More str methods, and re.match for the pattern of a timestamped line    *)
(***************************************************************************)
\* the characters of the alphabet in code point order
CodeOrder ==
    <<"\t", "\n", "\f", "\r", "ESC", " ", "\"", "'", ",", "-", ".", "/",
      "0", "1", "2", "3", "4", "5", "6", "7", "8", "9", ":", "=",
      "A", "B", "C", "D", "E", "F", "G", "H", "I", "J", "K", "L", "M",
      "N", "O", "P", "Q", "R", "S", "T", "U", "V", "W", "X", "Y", "Z",
      "[", "\\", "]", "_",
      "a", "b", "c", "d", "e", "f", "g", "h", "i", "j", "k", "l", "m",
      "n", "o", "p", "q", "r", "s", "t", "u", "v", "w", "x", "y", "z",
      "{", "|", "}">>

ord(c) == CHOOSE i \in 1..Len(CodeOrder) : CodeOrder[i] = c

\* a < b on str
RECURSIVE StrLess(_, _)
StrLess(a, b) ==
    IF a = <<>> THEN b # <<>>
    ELSE IF b = <<>> THEN FALSE
    ELSE IF a[1] = b[1] THEN StrLess(Tail(a), Tail(b))
    ELSE ord(a[1]) < ord(b[1])

\* the n-th position, in ascending order, of a set of positions
NthOf(ps, n) == CHOOSE j \in ps : Cardinality({k \in ps : k < j}) = n - 1

\* the text between position number n - 1 and position number n of ps,
\* the start and the end of s being the outermost positions
Between(s, ps, n) ==
    SubSeq(s, IF n = 1 THEN 1 ELSE NthOf(ps, n - 1) + 1,
              IF n = Cardinality(ps) + 1 THEN Len(s) ELSE NthOf(ps, n) - 1)

SplitFrom(s, sep) ==
    LET ps == {j \in 1..Len(s) : s[j] = sep} IN
    [n \in 1..(Cardinality(ps) + 1) |-> Between(s, ps, n)]

\* s.split(sep) for a separator of one character
split(s, sep) == SplitFrom(s, sep)

\* the line boundaries of str.splitlines() that occur in the alphabet
\* ("\r\n" is one boundary)
LineBoundaries == {"\n", "\r", "\f"}

\* the line of s that ends at the boundary number n of ps, the "\r" of a
\* boundary "\r\n" being no part of it
LineBefore(s, ps, n) ==
    LET line == Between(s, ps, n) IN
    IF s[NthOf(ps, n)] = "\n" /\ line # <<>> /\ line[Len(line)] = "\r"
    THEN SubSeq(line, 1, Len(line) - 1)
    ELSE line

SplitLinesFrom(s) ==
    LET ps == {j \in 1..Len(s) :
                  s[j] \in LineBoundaries /\ ~(s[j] = "\r" /\ CharAt(s, j + 1) = "\n")}
        rest == Between(s, ps, Cardinality(ps) + 1)
    IN  [n \in 1..Cardinality(ps) |-> LineBefore(s, ps, n)]
            \o (IF rest = <<>> THEN <<>> ELSE <<rest>>)

splitlines(s) == SplitLinesFrom(s)

\* ^(\d\d:\d\d:\d\d) matches at the start of s
TimestampPrefix(s) ==
    /\ Len(s) >= 8
    /\ \A i \in {1, 2, 4, 5, 7, 8} : s[i] \in Digits
    /\ s[3] = ":" /\ s[6] = ":"

\* (.+)$ can match s[a..e]: no newline inside, and e is the end of s or the
\* place before a last newline
GroupTwoEnds(s, a) ==
    {e \in a..Len(s) :
        /\ \A n \in a..e : s[n] # "\n"
        /\ \/ e = Len(s)
           \/ e = Len(s) - 1 /\ s[Len(s)] = "\n"}

Max(S) == CHOOSE x \in S : \A y \in S : y <= x

\* re.match(r'^(\d\d:\d\d:\d\d)\s+(.+)$', s): ok and group(2).  \s+ and .+
\* are greedy: the longest run of whitespace that leaves a match, then the
\* longest group.
TimestampMatch(s) ==
    LET w == LStripFrom(s, 9) - 9
        ks == {k \in 1..w : GroupTwoEnds(s, 9 + k) # {}}
    IN  IF TimestampPrefix(s) /\ ks # {}
        THEN LET k == Max(ks)
             IN  [ok |-> TRUE, group2 |-> SubSeq(s, 9 + k, Max(GroupTwoEnds(s, 9 + k)))]
        ELSE [ok |-> FALSE, group2 |-> <<>>]

(***************************************************************************)
(* parse_dbt_list_output, command.py lines 178-302                         *)
(*                                                                         *)
(* The outcome of a call is [raised, val]: the exception that left the     *)
(* function, or "none" and the value returned.                             *)
(***************************************************************************)
Return(val) == [raised |-> "none", val |-> val]
Raise(e) == [raised |-> e, val |-> PyNone]

NodesKey == <<"n", "o", "d", "e", "s">>
ResourceTypeKey == <<"r", "e", "s", "o", "u", "r", "c", "e", "_", "t", "y", "p", "e">>
ResourceTypeColon == <<"\"">> \o ResourceTypeKey \o <<"\"", ":">>

\* d[key], for a key d has
DictGet(d, key) == d.v[CHOOSE n \in 1..Len(d.v) : d.v[n].k = key].v

\* the pairs of {**kvs, **more}
RECURSIVE DictUpdate(_, _)
DictUpdate(kvs, more) ==
    IF more = <<>> THEN kvs
    ELSE DictUpdate(DictSet(kvs, more[1].k, more[1].v), Tail(more))

\* the record in which the key of the node replaces a name of the details
NodeRecordKeyWins(name, details) ==
    PyDict(DictSet(DictUpdate(<<[k |-> NameKey, v |-> PyStr(name)]>>, details.v),
                   NameKey, PyStr(name)))

\* {"name": name, **details}, lines 191 and 261
NodeRecord(name, details) ==
    PyDict(DictUpdate(<<[k |-> NameKey, v |-> PyStr(name)]>>, details.v))

\* lines 189-194 and 259-263: nodes.items() needs a dict, ** a mapping
NodesRecords(nodes) ==
    IF ~IsDict(nodes) THEN Raise("AttributeError")
    ELSE IF \E n \in 1..Len(nodes.v) : ~IsDict(nodes.v[n].v) THEN Raise("TypeError")
    ELSE Return(PyList([n \in 1..Len(nodes.v) |->
                           NodeRecord(nodes.v[n].k, nodes.v[n].v)]))

\* the log messages of lines 205-208
LogMessages ==
    { <<"S", "e", "n", "d", "i", "n", "g", " ", "p", "r", "o", "j", "e", "c", "t">>,
      <<"C", "r", "e", "a", "t", "e", "d", " ", "i", "n", "v", "o", "c", "a", "t", "i", "o", "n">>,
      <<"W", "a", "i", "t", "i", "n", "g", " ", "f", "o", "r">>,
      <<"S", "t", "r", "e", "a", "m", "i", "n", "g">>,
      <<"R", "u", "n", "n", "i", "n", "g", " ", "d", "b", "t">>,
      <<"I", "n", "v", "o", "c", "a", "t", "i", "o", "n", " ", "h", "a", "s", " ",
        "f", "i", "n", "i", "s", "h", "e", "d">> }

\* isinstance(model_data, dict) and "name" in model_data and
\* "resource_type" in model_data
IsResource(x) == IsDict(x) /\ HasKey(x, NameKey) /\ HasKey(x, ResourceTypeKey)

\* line 212 and line 280: the text looks like a JSON object of a resource
LooksLikeResource(s) ==
    /\ startswith(s, <<"{">>)
    /\ Contains(NameColon, s)
    /\ Contains(ResourceTypeColon, s)

\* log_msg in name_value for a name_value of any type: in a str a
\* substring, in a list an element, in a dict a key, otherwise TypeError
InValue(msg, x) ==
    CASE IsStr(x) -> Contains(msg, x.v)
      [] IsList(x) -> \E n \in 1..Len(x.v) : x.v[n] = PyStr(msg)
      [] IsDict(x) -> HasKey(x, msg)
      [] OTHER -> FALSE

\* the decoding gave an object with name and resource_type
DecodesResource(r) == r.ok /\ IsResource(r.val)

\* lines 222-225, 290-293: the text after the timestamp, decoded
StampedJson(s) ==
    IF TimestampMatch(s).ok THEN json_loads(TimestampMatch(s).group2) ELSE JFail

\* the resource that the text s holds, bare (lines 212-219, 280-287) or
\* after a timestamp (lines 222-232, 290-296); JFail if it holds none
ResourceIn(s) ==
    LET Pick(bare, stamped) ==
            IF LooksLikeResource(s) /\ DecodesResource(bare) THEN bare
            ELSE IF DecodesResource(stamped) THEN stamped
            ELSE JFail
    IN  Pick(json_loads(s), StampedJson(s))

\* what one item of a loop adds: no record or one
RecsOf(r) == [raised |-> "none", recs |-> IF r.ok THEN <<r.val>> ELSE <<>>]

\* lines 201-236 for one item, name_value being its name: the records it
\* adds to extracted_models (none or one), or the exception
CloudItem(name_value) ==
    IF ~(IsStr(name_value) \/ IsList(name_value) \/ IsDict(name_value))
    THEN [raised |-> "TypeError", recs |-> <<>>]
    ELSE IF \E msg \in LogMessages : InValue(msg, name_value)
    THEN [raised |-> "none", recs |-> <<>>]
    ELSE IF ~IsStr(name_value) THEN [raised |-> "AttributeError", recs |-> <<>>]
    ELSE RecsOf(ResourceIn(name_value.v))

\* a loop over items: the records of all items in order, or the exception
\* of the first item that raises, rs[n] being what item n gives
Collected(rs) ==
    IF \E n \in DOMAIN rs : rs[n].raised # "none"
    THEN Raise(rs[CHOOSE n \in DOMAIN rs :
                     /\ rs[n].raised # "none"
                     /\ \A k \in 1..(n - 1) : rs[k].raised = "none"].raised)
    ELSE Return(Flatten([n \in DOMAIN rs |-> rs[n].recs]))

\* the loop of lines 201-236
CloudItems(items) ==
    LET Listed(r) == IF r.raised # "none" THEN r ELSE Return(PyList(r.val))
    IN  Listed(Collected([n \in DOMAIN items |-> CloudItem(DictGet(items[n], NameKey))]))

\* lines 270-297 for one stripped line that is not empty
TextLine(line) ==
    LET Rec(r) == IF r.ok THEN r.val ELSE PyDict(<<[k |-> NameKey, v |-> PyStr(line)]>>)
    IN  Rec(ResourceIn(line))

NotEmptyText(s) == s # <<>>

\* lines 269-275: the lines, stripped, that are not empty
StrippedLines(lines) == SelectSeq([n \in DOMAIN lines |-> strip(lines[n])], NotEmptyText)

\* the loop of lines 269-297
TextRecords(lines) ==
    [n \in DOMAIN StrippedLines(lines) |-> TextLine(StrippedLines(lines)[n])]

\* lines 256-298: a str
ParseText(s) ==
    LET Shape(parsed, records) ==
            IF ~parsed.ok THEN Return(PyList(records))
            ELSE IF IsDict(parsed.val) /\ HasKey(parsed.val, NodesKey)
            THEN NodesRecords(DictGet(parsed.val, NodesKey))
            ELSE IF IsList(parsed.val) THEN Return(parsed.val)
            ELSE Return(PyList(<<>>))
    IN  Shape(json_loads(s), TextRecords(splitlines(s)))

parse_dbt_list_output(output) ==
    IF IsDict(output) /\ HasKey(output, NodesKey)
    THEN NodesRecords(DictGet(output, NodesKey))
    ELSE IF IsList(output) /\ AllDictsWithName(output.v)
    THEN CloudItems(output.v)
    ELSE IF IsList(output) THEN Return(output)
    ELSE IF IsStr(output) THEN ParseText(output.v)
    ELSE Return(PyList(<<>>))

(***************************************************************************)
(* json.dumps, str and list.sort                                           *)
(***************************************************************************)
DigitChar(d) == CHOOSE c \in Digits : DigitVal(c) = d

RECURSIVE DigitsOf(_)
DigitsOf(n) ==
    IF n < 10 THEN <<DigitChar(n)>> ELSE DigitsOf(n \div 10) \o <<DigitChar(n % 10)>>

\* str(n) and the JSON text of an int
IntText(n) == IF n < 0 THEN <<"-">> \o DigitsOf(0 - n) ELSE DigitsOf(n)

\* the encoding of one character of a string, ensure_ascii being True
EscapeChar(c) ==
    CASE c = "\"" -> <<"\\", "\"">>
      [] c = "\\" -> <<"\\", "\\">>
      [] c = "\n" -> <<"\\", "n">>
      [] c = "\t" -> <<"\\", "t">>
      [] c = "\r" -> <<"\\", "r">>
      [] c = "\f" -> <<"\\", "f">>
      [] c = "ESC" -> <<"\\", "u", "0", "0", "1", "b">>
      [] OTHER -> <<c>>

RECURSIVE EscapeText(_)
EscapeText(s) ==
    IF s = <<>> THEN <<>>
    ELSE IF Len(s) = 1 THEN EscapeChar(s[1])
    ELSE EscapeText(SubSeq(s, 1, Len(s) \div 2))
             \o EscapeText(SubSeq(s, Len(s) \div 2 + 1, Len(s)))

QuoteText(s) == <<"\"">> \o EscapeText(s) \o <<"\"">>

RECURSIVE Spaces(_)
Spaces(n) == IF n <= 0 THEN <<>> ELSE <<" ">> \o Spaces(n - 1)

\* json.dumps without indent
NoIndent == -1

\* what is written between two items, and before the first and after the
\* last one, at a nesting level
ItemSeparator(indent, level) ==
    IF indent = NoIndent THEN <<",", " ">>
    ELSE <<",", "\n">> \o Spaces(indent * level)
OpenItems(indent, level) ==
    IF indent = NoIndent THEN <<>> ELSE <<"\n">> \o Spaces(indent * level)
CloseItems(indent, level) ==
    IF indent = NoIndent THEN <<>> ELSE <<"\n">> \o Spaces(indent * (level - 1))

RECURSIVE JoinTexts(_, _)
JoinTexts(texts, sep) ==
    IF texts = <<>> THEN <<>>
    ELSE IF Len(texts) = 1 THEN texts[1]
    ELSE texts[1] \o sep \o JoinTexts(Tail(texts), sep)

\* the encoder of json.dumps, level being the nesting of x
RECURSIVE Encode(_, _, _)
Encode(x, indent, level) ==
    CASE x.t = "none" -> <<"n", "u", "l", "l">>
      [] x.t = "bool" -> IF x.v THEN <<"t", "r", "u", "e">> ELSE <<"f", "a", "l", "s", "e">>
      [] x.t = "int" -> IntText(x.v)
      [] x.t = "str" -> QuoteText(x.v)
      [] x.t = "list" ->
            IF x.v = <<>> THEN <<"[", "]">>
            ELSE <<"[">> \o OpenItems(indent, level + 1)
                 \o JoinTexts([n \in 1..Len(x.v) |-> Encode(x.v[n], indent, level + 1)],
                              ItemSeparator(indent, level + 1))
                 \o CloseItems(indent, level + 1) \o <<"]">>
      [] x.t = "dict" ->
            IF x.v = <<>> THEN <<"{", "}">>
            ELSE <<"{">> \o OpenItems(indent, level + 1)
                 \o JoinTexts([n \in 1..Len(x.v) |->
                                  QuoteText(x.v[n].k) \o <<":", " ">>
                                  \o Encode(x.v[n].v, indent, level + 1)],
                              ItemSeparator(indent, level + 1))
                 \o CloseItems(indent, level + 1) \o <<"}">>

json_dumps(x, indent) == Encode(x, indent, 0)

\* repr of a str: single quotes, unless the text has one and no double quote
ReprChar(c, quote) ==
    CASE c = quote -> <<"\\", c>>
      [] c = "\\" -> <<"\\", "\\">>
      [] c = "\n" -> <<"\\", "n">>
      [] c = "\t" -> <<"\\", "t">>
      [] c = "\r" -> <<"\\", "r">>
      [] c = "\f" -> <<"\\", "x", "0", "c">>
      [] c = "ESC" -> <<"\\", "x", "1", "b">>
      [] OTHER -> <<c>>

RECURSIVE ReprText(_, _)
ReprText(s, quote) ==
    IF s = <<>> THEN <<>>
    ELSE IF Len(s) = 1 THEN ReprChar(s[1], quote)
    ELSE ReprText(SubSeq(s, 1, Len(s) \div 2), quote)
             \o ReprText(SubSeq(s, Len(s) \div 2 + 1, Len(s)), quote)

ReprStr(s) ==
    LET quote == IF Contains(<<"'">>, s) /\ ~Contains(<<"\"">>, s) THEN "\"" ELSE "'"
    IN  <<quote>> \o ReprText(s, quote) \o <<quote>>

RECURSIVE py_repr(_)
py_repr(x) ==
    CASE x.t = "none" -> <<"N", "o", "n", "e">>
      [] x.t = "bool" -> IF x.v THEN <<"T", "r", "u", "e">> ELSE <<"F", "a", "l", "s", "e">>
      [] x.t = "int" -> IntText(x.v)
      [] x.t = "str" -> ReprStr(x.v)
      [] x.t = "list" ->
            <<"[">> \o JoinTexts([n \in 1..Len(x.v) |-> py_repr(x.v[n])], <<",", " ">>)
            \o <<"]">>
      [] x.t = "dict" ->
            <<"{">> \o JoinTexts([n \in 1..Len(x.v) |->
                                    ReprStr(x.v[n].k) \o <<":", " ">> \o py_repr(x.v[n].v)],
                                 <<",", " ">>)
            \o <<"}">>

\* str(x)
py_str(x) == IF IsStr(x) THEN x.v ELSE py_repr(x)

\* not x
Falsy(x) ==
    \/ x.t = "none"
    \/ x.t = "bool" /\ ~x.v
    \/ x.t = "int" /\ x.v = 0
    \/ x.t \in {"str", "list", "dict"} /\ x.v = <<>>

\* d.get(key, default)
DictGetOr(d, key, default) == IF HasKey(d, key) THEN DictGet(d, key) ELSE default

\* the sort key of lines 64 (formatters.py) and 263, 293 (tools.py)
SortKey(x) ==
    <<DictGetOr(x, ResourceTypeKey, PyStr(<<>>)), DictGetOr(x, NameKey, PyStr(<<>>))>>

IsNumber(x) == x.t \in {"int", "bool"}
NumberOf(x) == IF x.t = "bool" THEN (IF x.v THEN 1 ELSE 0) ELSE x.v

\* a == b
PyEq(a, b) ==
    \/ a.t = b.t /\ a.v = b.v
    \/ IsNumber(a) /\ IsNumber(b) /\ NumberOf(a) = NumberOf(b)

\* a < b is defined: for the values a sort key holds in the model (str,
\* numbers, None, dict), between two str and between two numbers
Orderable(a, b) == (IsStr(a) /\ IsStr(b)) \/ (IsNumber(a) /\ IsNumber(b))

\* a < b, for an orderable pair
ValLess(a, b) == IF IsStr(a) THEN StrLess(a.v, b.v) ELSE NumberOf(a) < NumberOf(b)

\* the comparison of two tuples goes to the first component that differs
TupleOrderable(k1, k2) ==
    IF ~PyEq(k1[1], k2[1]) THEN Orderable(k1[1], k2[1])
    ELSE IF ~PyEq(k1[2], k2[2]) THEN Orderable(k1[2], k2[2])
    ELSE TRUE

TupleLess(k1, k2) ==
    IF ~PyEq(k1[1], k2[1]) THEN ValLess(k1[1], k2[1])
    ELSE IF ~PyEq(k1[2], k2[2]) THEN ValLess(k1[2], k2[2])
    ELSE FALSE

\* x put into the sorted sequence xs after the items that are not greater
RECURSIVE InsertSorted(_, _)
InsertSorted(xs, x) ==
    IF xs = <<>> THEN <<x>>
    ELSE IF TupleLess(SortKey(x), SortKey(xs[1])) THEN <<x>> \o xs
    ELSE <<xs[1]>> \o InsertSorted(Tail(xs), x)

RECURSIVE SortedFrom(_, _, _)
SortedFrom(xs, i, acc) ==
    IF i > Len(xs) THEN acc ELSE SortedFrom(xs, i + 1, InsertSorted(acc, xs[i]))

\* xs.sort(key=lambda x: (x.get("resource_type", ""), x.get("name", ""))):
\* the stable sort, or the TypeError of a comparison that is not defined
\* (a sort compares every two items that end next to each other)
SortByKey(xs) ==
    IF \E i, j \in 1..Len(xs) : ~TupleOrderable(SortKey(xs[i]), SortKey(xs[j]))
    THEN Raise("TypeError")
    ELSE Return(SortedFrom(xs, 1, <<>>))

(***************************************************************************)
(* The listing: ls_formatter (formatters.py lines 32-75) and the part of   *)
(* the tool dbt_ls that formats a successful result (tools.py lines        *)
(* 216-309)                                                                *)
(***************************************************************************)
\* the kinds of lines 61 (formatters.py) and 287 (tools.py)
ResourceKinds ==
    { <<"m", "o", "d", "e", "l">>, <<"s", "e", "e", "d">>, <<"t", "e", "s", "t">>,
      <<"s", "o", "u", "r", "c", "e">>, <<"s", "n", "a", "p", "s", "h", "o", "t">> }

\* a filter that removes only the items that have another resource_type
KeptByFilterWhenPresent(item) ==
    /\ IsDict(item)
    /\ HasKey(item, ResourceTypeKey) =>
          /\ IsStr(DictGet(item, ResourceTypeKey))
          /\ DictGet(item, ResourceTypeKey).v \in ResourceKinds

\* isinstance(item, dict) and item.get("resource_type") in [...]
KeptByFilter(item) ==
    /\ IsDict(item)
    /\ HasKey(item, ResourceTypeKey)
    /\ IsStr(DictGet(item, ResourceTypeKey))
    /\ DictGet(item, ResourceTypeKey).v \in ResourceKinds

\* the list comprehension of lines 60-61
FilterKinds(xs) == SelectSeq(xs, KeptByFilter)

\* a formatter that writes the filtered list also when it is empty
FilteredOnly(parsed, sorted) == sorted

\* lines 66-75 (formatters.py), 296-305 (tools.py): the list that is
\* written, parsed being the list before the filter
FilteredOrAll(parsed, sorted) ==
    IF sorted = <<>> /\ parsed # <<>> THEN parsed ELSE sorted

\* lines 59-75 (formatters.py), 286-305 (tools.py)
FilterSortDump(parsed) ==
    LET Dump(sorted) ==
            IF sorted.raised # "none" THEN sorted
            ELSE Return(PyStr(json_dumps(PyList(FilteredOrAll(parsed, sorted.val)), 2)))
    IN  Dump(SortByKey(FilterKinds(parsed)))

EmptyListing == Return(PyStr(<<"[", "]">>))

ls_formatter(output, output_format) ==
    LET Format(parsed) ==
            IF parsed.raised # "none" THEN parsed ELSE FilterSortDump(parsed.val.v)
    IN  IF output_format # "json" THEN Return(PyStr(py_str(output)))
        ELSE IF Falsy(output) THEN EmptyListing
        ELSE Format(parse_dbt_list_output(output))

\* the escape sequence of line 236 and the log messages of lines 241-246
AnsiEscape == <<"ESC", "[">>
ToolLogMessages ==
    LogMessages \cup
    { <<"R", "u", "n", "n", "i", "n", "g", " ", "w", "i", "t", "h", " ", "d", "b", "t", "=">>,
      <<"R", "e", "g", "i", "s", "t", "e", "r", "e", "d", " ", "a", "d", "a", "p", "t", "e", "r", ":">>,
      <<"F", "o", "u", "n", "d">>,
      <<"U", "n", "a", "b", "l", "e", " ", "t", "o", " ", "d", "o", " ",
        "p", "a", "r", "t", "i", "a", "l", " ", "p", "a", "r", "s", "i", "n", "g">>,
      <<"S", "t", "a", "r", "t", "i", "n", "g">>,
      <<"C", "o", "m", "p", "l", "e", "t", "e", "d">> }

\* tools.py lines 232-260 for one item, name_value being its name; the
\* messages logged at lines 237 and 247 slice name_value, which a str and
\* a list allow
ToolCloudItem(name_value) ==
    LET Kept(stamped) == IF DecodesResource(stamped) THEN stamped ELSE JFail IN
    IF ~(IsStr(name_value) \/ IsList(name_value))
    THEN [raised |-> "TypeError", recs |-> <<>>]
    ELSE IF InValue(AnsiEscape, name_value)
            \/ \E msg \in ToolLogMessages : InValue(msg, name_value)
    THEN [raised |-> "none", recs |-> <<>>]
    ELSE IF ~IsStr(name_value) THEN [raised |-> "TypeError", recs |-> <<>>]
    ELSE RecsOf(Kept(StampedJson(name_value.v)))

\* the loop of tools.py lines 232-260
ToolCloudItems(items) ==
    Collected([n \in DOMAIN items |-> ToolCloudItem(DictGet(items[n], NameKey))])

\* tools.py lines 225-273
ToolCloudListing(items) ==
    LET Dump(sorted) ==
            IF sorted.raised # "none" THEN sorted
            ELSE Return(PyStr(json_dumps(PyList(sorted.val), 2)))
        Listing(extracted) ==
            IF extracted.raised # "none" THEN extracted
            ELSE IF extracted.val = <<>> THEN EmptyListing
            ELSE Dump(SortByKey(extracted.val))
    IN  Listing(ToolCloudItems(items))

\* tools.py lines 216-309: what dbt_ls returns for the output of a
\* successful command
dbt_ls_listing(output, output_format) ==
    LET Format(parsed) ==
            IF parsed.raised # "none" THEN parsed
            ELSE IF parsed.val.v = <<>> THEN EmptyListing
            ELSE FilterSortDump(parsed.val.v)
    IN  IF output_format # "json" THEN Return(PyStr(py_str(output)))
        ELSE IF Falsy(output) THEN EmptyListing
        ELSE IF IsList(output) /\ AllDictsWithName(output.v) THEN ToolCloudListing(output.v)
        ELSE Format(parse_dbt_list_output(output))

(***************************************************************************)
(* show_formatter, formatters.py lines 78-116                              *)
(***************************************************************************)
IsBlank(s) == strip(s) = <<>>

\* [x.strip() for x in line.strip().split("|")], every field kept
TrimmedFields(line) ==
    LET parts == split(strip(line), "|") IN [n \in 1..Len(parts) |-> strip(parts[n])]


\* lines 98-99 and 105-106: [x.strip() for x in ... if x.strip()]
Fields(line) == SelectSeq(TrimmedFields(line), NotEmptyText)

\* dict(zip(header, values))
RECURSIVE ZipDict(_, _, _)
ZipDict(header, values, acc) ==
    IF header = <<>> \/ values = <<>> THEN acc
    ELSE ZipDict(Tail(header), Tail(values), DictSet(acc, header[1], PyStr(values[1])))

\* lines 103-109
RECURSIVE DataRows(_, _)
DataRows(header, lines) ==
    IF lines = <<>> THEN <<>>
    ELSE LET line == lines[1]
             values == Fields(line)
             rest == DataRows(header, Tail(lines))
         IN  IF ~IsBlank(line) /\ Contains(<<"|">>, line) /\ Len(values) = Len(header)
             THEN <<PyDict(ZipDict(header, values, <<>>))>> \o rest
             ELSE rest

\* json.dumps encodes the value: a bytes object inside it is a TypeError
RECURSIVE Serializable(_)
Serializable(x) ==
    CASE x.t = "bytes" -> FALSE
      [] IsList(x) -> \A n \in 1..Len(x.v) : Serializable(x.v[n])
      [] IsDict(x) -> \A n \in 1..Len(x.v) : Serializable(x.v[n].v)
      [] OTHER -> TRUE

\* Lines 89-90 are outside the try statement. No statement of lines
\* 95-111 raises for a str: the except clause of line 112 is never entered.
show_formatter(output) ==
    IF (IsDict(output) \/ IsList(output)) /\ ~Serializable(output) THEN Raise("TypeError")
    ELSE IF IsDict(output) \/ IsList(output)
    THEN Return(PyStr(json_dumps(output, NoIndent)))
    ELSE LET lines == split(strip(py_str(output)), "\n") IN
         IF Len(lines) > 2
         THEN Return(PyStr(json_dumps(
                  PyList(DataRows(Fields(lines[1]), SubSeq(lines, 3, Len(lines)))),
                  NoIndent)))
         ELSE Return(PyStr(py_str(output)))

(***************************************************************************)
(* The outputs the listing functions are called on                         *)
(***************************************************************************)
Quoted(s) == <<"\"">> \o s \o <<"\"">>

\* the JSON text {"name":"<name>","resource_type":"<kind>"}
ResourceText(name, kind) ==
    <<"{">> \o Quoted(NameKey) \o <<":">> \o Quoted(name) \o <<",">>
    \o Quoted(ResourceTypeKey) \o <<":">> \o Quoted(kind) \o <<"}">>

\* the same object written with a space before each colon
ResourceTextSpaced(name, kind) ==
    <<"{">> \o Quoted(NameKey) \o <<" ", ":">> \o Quoted(name) \o <<",">>
    \o Quoted(ResourceTypeKey) \o <<" ", ":">> \o Quoted(kind) \o <<"}">>

Stamp == <<"0", "0", ":", "0", "0", ":", "0", "1", " ">>
KindModel == <<"m", "o", "d", "e", "l">>
KindSeed == <<"s", "e", "e", "d">>
KindMacro == <<"m", "a", "c", "r", "o">>
TextSending ==
    <<"S", "e", "n", "d", "i", "n", "g", " ", "p", "r", "o", "j", "e", "c", "t", " ",
      "f", "i", "l", "e", "s">>
TextModel1 == <<"m", "o", "d", "e", "l", "1">>
TextModel2 == <<"m", "o", "d", "e", "l", "2">>

\* what the name of an element of a dbt Cloud CLI array can be
CloudNames ==
    << PyStr(TextSending),
       PyStr(Stamp \o ResourceText(<<"m", "1">>, KindModel)),
       PyStr(ResourceText(<<"m", "2">>, KindSeed)),
       PyStr(ResourceTextSpaced(<<"m", "3">>, KindModel)),
       PyStr(Stamp \o ResourceText(<<"ESC", "[", "0", "m", "m", "4">>, KindModel)),
       PyStr(Stamp \o ResourceText(<<"m", "6">>, KindModel) \o <<"ESC", "[", "0", "m">>),
       PyStr(TextModel1),
       PyStr(TextModel2),
       PyStr(Stamp \o ResourceText(<<"a">>, KindModel)),
       PyStr(Stamp \o <<"[", "1", "]">>),
       PyStr(Stamp \o ResourceText(<<"m", "0">>, KindMacro)),
       PyStr(Stamp \o <<"{">> \o Quoted(NameKey) \o <<":">> \o Quoted(<<"m", "5">>) \o <<"}">>),
       PyInt(1) >>

\* the details of a node under the key k<n>
NodeDetails ==
    << PyDict(<<[k |-> ResourceTypeKey, v |-> PyStr(KindModel)],
                [k |-> NameKey, v |-> PyStr(<<"z">>)]>>),
       PyDict(<<>>),
       PyDict(<<[k |-> NameKey, v |-> PyStr(<<"X">>)]>>),
       PyDict(<<[k |-> ResourceTypeKey, v |-> PyStr(KindMacro)]>>),
       PyDict(<<[k |-> ResourceTypeKey, v |-> PyStr(KindSeed)],
                [k |-> NameKey, v |-> PyStr(<<"b">>)],
                [k |-> <<"x">>, v |-> PyInt(1)]>>),
       PyInt(1),
       PyDict(<<[k |-> ResourceTypeKey, v |-> PyStr(KindModel)],
                [k |-> NameKey, v |-> PyInt(1)]>>) >>

\* the lines of a text
ListLines ==
    << TextModel1,
       Stamp \o ResourceText(<<"m", "1">>, KindModel),
       ResourceText(<<"m", "2">>, KindSeed),
       ResourceTextSpaced(<<"m", "3">>, KindModel),
       <<>>,
       <<" ", " ", "b", " ">>,
       Stamp \o <<"[", "1", "]">> >>

\* the most items of an array, nodes of a mapping and lines of a text
MaxItems == 2

\* the choices of at most MaxItems of n things, with and without repetition
Choices(n) == UNION {[1..len -> 1..n] : len \in 0..MaxItems}
DistinctChoices(n) == {f \in Choices(n) : \A i, j \in DOMAIN f : i # j => f[i] # f[j]}

CloudArray(f) ==
    PyList([i \in DOMAIN f |-> PyDict(<<[k |-> NameKey, v |-> CloudNames[f[i]]]>>)])

NodesObject(f) ==
    PyDict(<<[k |-> NodesKey,
              v |-> PyDict([i \in DOMAIN f |->
                               [k |-> <<"k", DigitChar(f[i])>>, v |-> NodeDetails[f[i]]]])]>>)

\* every line ends with a newline
RECURSIVE LinesText(_)
LinesText(lines) ==
    IF lines = <<>> THEN <<>> ELSE lines[1] \o <<"\n">> \o LinesText(Tail(lines))

ListText(f) == PyStr(LinesText([i \in DOMAIN f |-> ListLines[f[i]]]))

\* arrays of another shape, and values that are no listing at all
OtherOutputs ==
    << PyList(<<PyInt(1)>>),
       PyList(<<PyInt(1), PyDict(<<[k |-> NameKey, v |-> PyStr(<<"a">>)]>>)>>),
       PyList(<<PyDict(<<[k |-> <<"a">>, v |-> PyInt(1)]>>)>>),
       PyDict(<<[k |-> NodesKey, v |-> PyList(<<PyInt(1)>>)]>>),
       PyDict(<<[k |-> <<"a">>, v |-> PyInt(1)]>>),
       PyStr(<<"1", "2", "3">>),
       PyNone,
       PyInt(5) >>

OutputFormats == {"json", "name"}

(***************************************************************************)
(* The calls of the listing functions on an output (SpecList) and of       *)
(* show_formatter (SpecShow)                                               *)
(***************************************************************************)
processVars == <<os_environ, environ0, config, pc, args, child, result, exc>>

\* the function is about to be called on the output x
InputCall(x) == call = [NoCall EXCEPT !.input = x]

InitList ==
    /\ InitWith({EmptyEnv})
    /\ \/ \E f \in Choices(Len(CloudNames)) : InputCall(CloudArray(f))
       \/ \E f \in DistinctChoices(Len(NodeDetails)) :
             \/ InputCall(NodesObject(f))
             \/ InputCall(PyStr(json_dumps(NodesObject(f), NoIndent)))
       \/ \E f \in Choices(Len(ListLines)) : InputCall(ListText(f))
       \/ \E n \in 1..Len(OtherOutputs) : InputCall(OtherOutputs[n])

\* the call returns r.val or raises r.raised
Returned(fn, output_format, r) ==
    /\ call.fn = "none"
    /\ call' = [call EXCEPT !.fn = fn, !.output_format = output_format,
                            !.raised = r.raised, !.output = r.val]
    /\ UNCHANGED processVars

ParseList == Returned("parse_dbt_list_output", "json", parse_dbt_list_output(call.input))

LsFormatter(output_format) ==
    Returned("ls_formatter", output_format, ls_formatter(call.input, output_format))

DbtLs(output_format) ==
    Returned("dbt_ls", output_format, dbt_ls_listing(call.input, output_format))

NextList ==
    \/ ParseList
    \/ \E output_format \in OutputFormats : LsFormatter(output_format)
    \/ \E output_format \in OutputFormats : DbtLs(output_format)

SpecList == InitList /\ [][NextList]_vars

\* the lines of a table
ShowHeaders == << <<"a", "|", "b">>, <<"|", " ", "a", " ", "|", " ", "b", " ", "|">>,
                 <<"a", "|", "b", "|", "c">> >>
ShowSeparator == <<"-", "|", "-">>
ShowRows ==
    << <<"1", "|", "2">>,
       <<"1", "|", "|", "3">>,
       <<"|", " ", "1", " ", "|", " ", "2", " ", "|">>,
       <<"1", "|", "2", "|", "3">>,
       <<>>,
       <<"x">>,
       <<" ", "3", " ", "|", "4", "|", "5", "|", "6">> >>

\* the most data rows of a table
MaxRows == 2

RowChoices == UNION {[1..len -> 1..Len(ShowRows)] : len \in 0..MaxRows}

ShowTable(h, f) ==
    PyStr(LinesText(<<ShowHeaders[h], ShowSeparator>> \o [i \in DOMAIN f |-> ShowRows[f[i]]]))

\* outputs that are not a table
OtherShowOutputs ==
    << PyNone, PyInt(5), PyStr(<<>>), PyStr(<<"a", "\n", "b">>),
       PyList(<<PyInt(1), PyDict(<<[k |-> <<"a">>, v |-> PyNone]>>)>>),
       PyDict(<<[k |-> <<"a">>, v |-> PyStr(<<"x", "\n">>)]>>),
       PyList(<<PyBytes(<<"x">>)>>) >>

InitShow ==
    /\ InitWith({EmptyEnv})
    /\ \/ \E h \in 1..Len(ShowHeaders), f \in RowChoices : InputCall(ShowTable(h, f))
       \/ \E n \in 1..Len(OtherShowOutputs) : InputCall(OtherShowOutputs[n])

ShowFormatter == Returned("show_formatter", "json", show_formatter(call.input))

NextShow == ShowFormatter

SpecShow == InitShow /\ [][NextShow]_vars

(***************************************************************************)
(* The claims about parse_dbt_list_output (SpecList)                       *)
(***************************************************************************)
Parsed == call.fn = "parse_dbt_list_output"

\* the output is an object whose nodes mapping gives every node an object
IsNodesObject(x) ==
    /\ IsDict(x) /\ HasKey(x, NodesKey)
    /\ IsDict(DictGet(x, NodesKey))
    /\ \A n \in 1..Len(DictGet(x, NodesKey).v) : IsDict(DictGet(x, NodesKey).v[n].v)

\* C11 as claimed: parse_dbt_list_output on an object with a nodes mapping
\* yields one record per entry, and the name of each record is the key of
\* its entry, whatever name the details of the node give.
C11_KeyDerivedNameWins ==
    (Parsed /\ IsNodesObject(call.input)) =>
        LET nodes == DictGet(call.input, NodesKey).v IN
        /\ call.raised = "none"
        /\ IsList(call.output) /\ Len(call.output.v) = Len(nodes)
        /\ \A n \in 1..Len(nodes) :
              DictGet(call.output.v[n], NameKey) = PyStr(nodes[n].k)

\* C11 as amended: one record per entry, in the order of the entries; the
\* record holds every field of the details with the value of the details,
\* the name too when the details give one, and the key of the entry is the
\* name only of a record whose details give none.
C11_NameOfDetailsWins ==
    (Parsed /\ IsNodesObject(call.input)) =>
        LET nodes == DictGet(call.input, NodesKey).v IN
        /\ call.raised = "none"
        /\ IsList(call.output) /\ Len(call.output.v) = Len(nodes)
        /\ \A n \in 1..Len(nodes) :
              LET rec == call.output.v[n]
                  details == nodes[n].v
              IN  /\ IsDict(rec)
                  /\ \A m \in 1..Len(details.v) :
                        /\ HasKey(rec, details.v[m].k)
                        /\ DictGet(rec, details.v[m].k) = details.v[m].v
                  /\ \A m \in 1..Len(rec.v) :
                        rec.v[m].k = NameKey \/ HasKey(details, rec.v[m].k)
                  /\ HasKey(rec, NameKey)
                  /\ ~HasKey(details, NameKey) => DictGet(rec, NameKey) = PyStr(nodes[n].k)

\* the node k3 gives the name X in its details, the node k2 gives none
C11_Witness ==
    /\ Parsed /\ IsNodesObject(call.input)
    /\ Len(DictGet(call.input, NodesKey).v) = 2
    /\ DictGet(call.input, NodesKey).v[1].k = <<"k", "3">>
    /\ DictGet(call.input, NodesKey).v[2].k = <<"k", "2">>
    /\ DictGet(call.output.v[1], NameKey) = PyStr(<<"X">>)
    /\ DictGet(call.output.v[2], NameKey) = PyStr(<<"k", "2">>)

\* C12: parse_dbt_list_output applied to an array returns the array
\* unchanged and raises nothing, whatever the shape of the array.
C12_ArrayPassesThrough ==
    (Parsed /\ IsList(call.input)) =>
        /\ call.raised = "none"
        /\ call.output = call.input


(***************************************************************************)
(* The claims about the extraction from a cloud-log array (SpecList)       *)
(***************************************************************************)
\* an array, not empty, of objects that each have a string as name
IsCloudLogArray(x) ==
    /\ IsList(x) /\ x.v # <<>>
    /\ \A n \in 1..Len(x.v) :
          /\ IsDict(x.v[n]) /\ HasKey(x.v[n], NameKey)
          /\ IsStr(DictGet(x.v[n], NameKey))

Extracted == call.fn = "parse_dbt_list_output" \/ (call.fn = "dbt_ls" /\ call.output_format = "json")

\* the name of element n of the array
NameOf(x, n) == DictGet(x.v[n], NameKey).v

\* a housekeeping line: a colour-escape sequence or a known log message
Housekeeping(s) ==
    Contains(AnsiEscape, s) \/ \E msg \in LogMessages : Contains(msg, s)

\* the text embedded in a name: what follows the timestamp, or all of it
Embedded(s) ==
    LET m == TimestampMatch(s) IN
    IF m.ok THEN json_loads(m.group2) ELSE json_loads(s)

\* the embedded objects of the elements from n on, in encounter order
RECURSIVE EmbeddedResources(_, _)
EmbeddedResources(x, n) ==
    IF n > Len(x.v) THEN <<>>
    ELSE LET s == NameOf(x, n)
             e == Embedded(s)
         IN  (IF ~Housekeeping(s) /\ e.ok /\ IsResource(e.val) THEN <<e.val>> ELSE <<>>)
                 \o EmbeddedResources(x, n + 1)

\* the records of a listing that dbt_ls returned as JSON text
ListingOf(x) == json_loads(x.v)

\* C13: the extraction from a cloud-log array is exactly the sequence of
\* the embedded objects with name and resource_type of the elements that
\* are not housekeeping lines, timestamped or bare: parse_dbt_list_output
\* returns them in encounter order, and the listing of dbt_ls holds the
\* same records, one for one.
C13_ExtractionIsTheEmbeddedObjects ==
    (Extracted /\ IsCloudLogArray(call.input)) =>
        LET expected == EmbeddedResources(call.input, 1) IN
        /\ call.raised = "none"
        /\ Parsed => call.output = PyList(expected)
        /\ call.fn = "dbt_ls" =>
              LET listing == ListingOf(call.output) IN
              /\ listing.ok /\ IsList(listing.val)
              /\ Len(listing.val.v) = Len(expected)
              /\ \A n \in 1..Len(expected) :
                    \E m \in 1..Len(listing.val.v) : listing.val.v[m] = expected[n]

\* the elements of the array from n on whose name has no colour escape
RECURSIVE WithoutEscapes(_, _)
WithoutEscapes(x, n) ==
    IF n > Len(x.v) THEN <<>>
    ELSE (IF Contains(AnsiEscape, NameOf(x, n)) THEN <<>> ELSE <<x.v[n]>>)
             \o WithoutEscapes(x, n + 1)

\* the record is what the name s embeds, after a timestamp or bare
DecodedFrom(rec, s) ==
    \/ json_loads(s).ok /\ json_loads(s).val = rec
    \/ /\ TimestampMatch(s).ok
       /\ json_loads(TimestampMatch(s).group2).ok
       /\ json_loads(TimestampMatch(s).group2).val = rec

\* the records of the result of the call
ResultRecords ==
    IF Parsed THEN call.output.v ELSE ListingOf(call.output).val.v

\* C14: the extraction from a cloud-log array discards every element whose
\* name contains a colour-escape sequence: the result is the result for the
\* array without these elements, and every record of it is decoded from
\* an element whose name holds no escape sequence.
C14_EscapedElementsDiscarded ==
    (Extracted /\ IsCloudLogArray(call.input)) =>
        LET kept == PyList(WithoutEscapes(call.input, 1)) IN
        /\ call.raised = "none"
        /\ Parsed => call.output = parse_dbt_list_output(kept).val
        /\ call.fn = "dbt_ls" => call.output = dbt_ls_listing(kept, "json").val
        /\ \A r \in 1..Len(ResultRecords) :
              \E n \in 1..Len(call.input.v) :
                  /\ ~Contains(AnsiEscape, NameOf(call.input, n))
                  /\ DecodedFrom(ResultRecords[r], NameOf(call.input, n))

\* a timestamped resource whose name holds an escape sequence, next to a
\* timestamped resource without one: only the second is in the result
C14_Witness ==
    /\ Extracted /\ IsCloudLogArray(call.input)
    /\ Len(call.input.v) = 2
    /\ NameOf(call.input, 1) = Stamp \o ResourceText(<<"ESC", "[", "0", "m", "m", "4">>, KindModel)
    /\ NameOf(call.input, 2) = Stamp \o ResourceText(<<"m", "1">>, KindModel)
    /\ Len(ResultRecords) = 1
    /\ DictGet(ResultRecords[1], NameKey) = PyStr(<<"m", "1">>)


(***************************************************************************)
(* The claim about a text (SpecList)                                       *)
(***************************************************************************)
\* the record of a line that is not blank: the object it embeds, after a
\* timestamp or bare, if that has name and resource_type, else its text
LineRecord(line) ==
    LET e == Embedded(line) IN
    IF e.ok /\ IsResource(e.val) THEN e.val
    ELSE PyDict(<<[k |-> NameKey, v |-> PyStr(line)]>>)

\* one record per line that is not blank, in the order of the lines
RECURSIVE LineRecords(_)
LineRecords(lines) ==
    IF lines = <<>> THEN <<>>
    ELSE (IF strip(lines[1]) = <<>> THEN <<>> ELSE <<LineRecord(strip(lines[1]))>>)
             \o LineRecords(Tail(lines))

\* C15: for a text, parse_dbt_list_output yields exactly one record per
\* non-blank line, in line order: the decoded object of a timestamped or
\* bare JSON object with name and resource_type, otherwise the record of
\* the trimmed line; no non-blank line is dropped.
C15_OneRecordPerLine ==
    (Parsed /\ IsStr(call.input)) =>
        /\ call.raised = "none"
        /\ call.output = PyList(LineRecords(splitlines(call.input.v)))


(***************************************************************************)
(* The claims about the listing formatter (SpecList)                       *)
(***************************************************************************)
\* a call that wrote a JSON listing through the filter of formatters.py
\* lines 59-75 or of tools.py lines 286-305
ThroughFilter ==
    /\ call.output_format = "json"
    /\ \/ call.fn = "ls_formatter"
       \/ call.fn = "dbt_ls" /\ ~(IsList(call.input) /\ AllDictsWithName(call.input.v))
    /\ ~Falsy(call.input)
    /\ parse_dbt_list_output(call.input).raised = "none"
    /\ call.raised = "none"

\* the list that parse_dbt_list_output gives for the input of the call
ParsedList == parse_dbt_list_output(call.input).val.v

\* the record has one of the five kinds as resource_type
KnownKind(x) ==
    /\ IsDict(x) /\ HasKey(x, ResourceTypeKey)
    /\ IsStr(DictGet(x, ResourceTypeKey))
    /\ DictGet(x, ResourceTypeKey).v \in ResourceKinds

\* C16: the listing formatter never returns an empty listing because of
\* the filter: when the parsed list is not empty and no record of it has
\* one of the five kinds, the listing is the whole parsed list.
C16_FilterFallsBackToParsed ==
    (/\ call.fn \in {"ls_formatter", "dbt_ls"} /\ call.output_format = "json"
     /\ ~(call.fn = "dbt_ls" /\ IsList(call.input) /\ AllDictsWithName(call.input.v))
     /\ ~Falsy(call.input)
     /\ parse_dbt_list_output(call.input).raised = "none"
     /\ ParsedList # <<>>
     /\ \A n \in 1..Len(ParsedList) : ~KnownKind(ParsedList[n]))
    => /\ call.raised = "none"
       /\ ListingOf(call.output).ok
       /\ ListingOf(call.output).val = PyList(ParsedList)
       /\ call.output = PyStr(json_dumps(PyList(ParsedList), 2))

\* a text of two names: no record has a kind, both are in the listing
C16_Witness ==
    /\ call.fn = "ls_formatter" /\ call.output_format = "json"
    /\ call.input = PyStr(TextModel1 \o <<"\n">> \o <<" ", " ", "b", " ", "\n">>)
    /\ Len(ParsedList) = 2
    /\ \A n \in 1..2 : ~KnownKind(ParsedList[n])
    /\ Len(ListingOf(call.output).val.v) = 2

\* C17 as claimed: the filter removes only records that have a
\* resource_type outside the five kinds; a record without resource_type
\* is in the listing, also when other records have one of the kinds.
C17_RecordWithoutKindRetained ==
    ThroughFilter =>
        \A n \in 1..Len(ParsedList) :
            (IsDict(ParsedList[n]) /\ ~HasKey(ParsedList[n], ResourceTypeKey)) =>
                \E m \in 1..Len(ListingOf(call.output).val.v) :
                    ListingOf(call.output).val.v[m] = ParsedList[n]

\* C17 as amended: when some record of the parsed list has one of the five
\* kinds, the listing holds exactly the records that have one: a record
\* without resource_type is removed like a record of another kind.
C17_OnlyKnownKindsRetained ==
    (ThroughFilter /\ \E n \in 1..Len(ParsedList) : KnownKind(ParsedList[n])) =>
        LET listing == ListingOf(call.output).val.v IN
        /\ Len(listing) = Cardinality({n \in 1..Len(ParsedList) : KnownKind(ParsedList[n])})
        /\ \A m \in 1..Len(listing) :
              /\ KnownKind(listing[m])
              /\ \E n \in 1..Len(ParsedList) : ParsedList[n] = listing[m]
        /\ \A n \in 1..Len(ParsedList) :
              KnownKind(ParsedList[n]) => \E m \in 1..Len(listing) : listing[m] = ParsedList[n]

\* a model next to a node without resource_type: only the model is listed
C17_Witness ==
    /\ ThroughFilter /\ call.fn = "ls_formatter"
    /\ Len(ParsedList) = 2
    /\ KnownKind(ParsedList[1])
    /\ IsDict(ParsedList[2]) /\ ~HasKey(ParsedList[2], ResourceTypeKey)
    /\ Len(ListingOf(call.output).val.v) = 1
    /\ ListingOf(call.output).val.v[1] = ParsedList[1]

\* C18: every JSON listing of objects that the listing formatter returns
\* is in ascending order of (resource_type, name), a missing field being
\* the empty string, also when the unfiltered list is returned.
C18_ListingSorted ==
    (/\ call.fn \in {"ls_formatter", "dbt_ls"} /\ call.output_format = "json"
     /\ call.raised = "none"
     /\ ListingOf(call.output).ok /\ IsList(ListingOf(call.output).val)
     /\ \A n \in 1..Len(ListingOf(call.output).val.v) : IsDict(ListingOf(call.output).val.v[n]))
    => LET listing == ListingOf(call.output).val.v IN
       \A m, n \in 1..Len(listing) :
           m < n => ~TupleLess(SortKey(listing[n]), SortKey(listing[m]))


(***************************************************************************)
(* The claims about show_formatter (SpecShow)                              *)
(***************************************************************************)
Shown == call.fn = "show_formatter"

\* the lines of the text that show_formatter was called on
ShowLines == split(strip(call.input.v), "\n")

\* the text has a header line, a separator line and at least one more line
IsShowTable == IsStr(call.input) /\ Len(ShowLines) > 2

HeaderNames == Fields(ShowLines[1])

\* a data line: a line after the second that is not empty and has a "|"
IsDataLine(line) == ~IsBlank(line) /\ Contains(<<"|">>, line)

\* a data line with as many fields, the empty ones counted, as the header has names
MatchingLine(line) == IsDataLine(line) /\ Len(TrimmedFields(line)) = Len(HeaderNames)

\* the rows of the matching lines: name number i with field number i
MatchingRows ==
    LET kept == SelectSeq(SubSeq(ShowLines, 3, Len(ShowLines)), MatchingLine) IN
    [n \in 1..Len(kept) |-> PyDict(ZipDict(HeaderNames, TrimmedFields(kept[n]), <<>>))]

\* C19: show_formatter keeps a data line of a table iff the number of its
\* fields between the "|", trimmed and with the empty ones counted, is the
\* number of header names, and the row of a kept line maps name number i
\* to field number i (an empty cell gives an empty string).
C19_RowsOfMatchingFieldCount ==
    (Shown /\ IsShowTable) =>
        /\ call.raised = "none"
        /\ call.output = PyStr(json_dumps(PyList(MatchingRows), NoIndent))

\* C20: show_formatter raises for no input; a table whose data lines all
\* have a number of fields other than the number of header names gives the
\* text of an empty list; an input that is neither an object, an array nor
\* a table comes back as its text.
C20_NeverRaisesNoRowsOnMismatch ==
    Shown =>
        /\ call.raised = "none"
        /\ (IsShowTable /\ MatchingRows = <<>>) => call.output = PyStr(<<"[", "]">>)
        /\ (~IsDict(call.input) /\ ~IsList(call.input) /\ ~IsShowTable) =>
              call.output = PyStr(py_str(call.input))

(***************************************************************************)
(* The tools (src/src/tools.py) and the command line (src/src/cli.py)      *)
(*                                                                         *)
(* A message is a text; the fixed parts of a message are written as one    *)
(* element each.                                                           *)
(***************************************************************************)
ToolNames == {"run", "test", "ls", "compile", "debug", "deps", "seed", "show", "build"}

ToolFn ==
    [run |-> "dbt_run", test |-> "dbt_test", ls |-> "dbt_ls", compile |-> "dbt_compile",
     debug |-> "dbt_debug", deps |-> "dbt_deps", seed |-> "dbt_seed", show |-> "dbt_show",
     build |-> "dbt_build"]

\* the command a tool builds when only the required arguments are given
\* (tools.py lines 59-71, 170-186, 473)
ToolCommand(tool, output_format) ==
    CASE tool = "ls" -> <<"ls", "--output", output_format, "--quiet">>
      [] tool = "show" -> <<"show", "-s", "m1">>
      [] OTHER -> <<tool>>

\* the command a function of the command line builds (cli.py lines 118-130,
\* 169-183, 290)
CliCommand(tool, output_format) ==
    CASE tool = "ls" -> <<"ls", "--output", output_format>>
      [] tool = "show" -> <<"show", "-s", "m1">>
      [] OTHER -> <<tool>>

\* the output format a listing command was built with
ListFormat(command) == IF Len(command) >= 3 THEN command[3] ELSE "json"

\* tools.py lines 79-81: the message of a failed command
ErrorMessage(command_name, r) ==
    <<"Error executing dbt ", command_name, ": ">> \o py_str(r.error)
    \o (IF Falsy(r.output) THEN <<>> ELSE <<"\n", "Output: ">> \o py_str(r.output))

\* tools.py lines 199-203, the models being None
CommandDetails(project_dir, output_format, r) ==
    <<"\n", "\n", "Command details:", "\n", "Project directory: ">> \o project_dir
    \o <<"\n", "Output format: ", output_format, "\n", "Models: ", "None",
         "\n", "Return code: ">> \o IntText(r.returncode)

\* tools.py line 84
default_format(output) ==
    IF IsDict(output) \/ IsList(output) THEN json_dumps(output, NoIndent) ELSE py_str(output)

\* dbt_run, dbt_test, dbt_compile, dbt_debug, dbt_deps, dbt_seed, dbt_show
\* and dbt_build once execute_dbt_command has returned r (tools.py lines
\* 78-84, 126-132, 351-357, 378-384, 405-411, 446-452, 483-489, 538-544)
dbt_command(command_name, r) ==
    IF ~r.success THEN Return(PyStr(ErrorMessage(command_name, r)))
    ELSE Return(PyStr(default_format(r.output)))

\* dbt_ls once execute_dbt_command has returned r (tools.py lines 192-309)
dbt_ls(project_dir, output_format, r) ==
    IF ~r.success
    THEN Return(PyStr(ErrorMessage("ls", r) \o CommandDetails(project_dir, output_format, r)))
    ELSE dbt_ls_listing(r.output, output_format)

\* what the tool of the command a returns for the result r
ToolResult(tool, a, r) ==
    IF tool = "ls" THEN dbt_ls(a.project_dir, ListFormat(a.command), r)
    ELSE dbt_command(tool, r)

\* run_dbt_run, run_dbt_test, run_dbt_compile, run_dbt_debug, run_dbt_deps,
\* run_dbt_seed, run_dbt_show and run_dbt_build once execute_dbt_command has
\* returned r (cli.py lines 135-141 and the like)
run_dbt_command(command_name, r) ==
    IF ~r.success THEN Return(PyStr(ErrorMessage(command_name, r)))
    ELSE Return(PyStr(default_format(r.output)))

\* run_dbt_ls once execute_dbt_command has returned r (cli.py lines 190-211)
run_dbt_ls(output_format, r) ==
    LET Dump(parsed) ==
            IF parsed.raised # "none" THEN parsed
            ELSE Return(PyStr(json_dumps(parsed.val, 2)))
    IN  IF ~r.success THEN Return(PyStr(ErrorMessage("ls", r)))
        ELSE IF output_format # "json" THEN Return(PyStr(py_str(r.output)))
        ELSE IF Falsy(r.output) THEN EmptyListing
        ELSE IF IsList(r.output) THEN Return(PyStr(json_dumps(r.output, NoIndent)))
        ELSE Dump(parse_dbt_list_output(r.output))

\* what the function of the command a returns for the result r
CliResult(tool, a, r) ==
    IF tool = "ls" THEN run_dbt_ls(ListFormat(a.command), r)
    ELSE run_dbt_command(tool, r)

OutputKey == <<"o", "u", "t", "p", "u", "t">>

\* cli.py lines 445-456: what main_async prints for the string a function
\* returned, format being the --format option
Printed(format, text) ==
    LET Wrapped == json_dumps(PyDict(<<[k |-> OutputKey, v |-> PyStr(text)]>>), 2)
        Reprinted(r) == IF r.ok THEN json_dumps(r.val, 2) ELSE Wrapped
    IN  IF format # "json" THEN text
        ELSE IF startswith(text, <<"{">>) \/ startswith(text, <<"[">>)
        THEN Reprinted(json_loads(text))
        ELSE Wrapped

\* the exit status of the process when main_async ends by raising e: 0 when
\* it returns, the status of SystemExit, 1 with a traceback for any other
\* exception (cli.py lines 461, 465)
ExitStatus(e) ==
    CASE e = "none" -> 0
      [] e = "SystemExit(1)" -> 1
      [] e = "SystemExit(2)" -> 2
      [] OTHER -> 1

\* cli.py line 371
NotFoundMessage(command) ==
    <<"Command '", command, "' not found. Use --help for usage information.">>

\* argparse, for a command that is none of the subcommands of lines 46-110:
\* usage and an error message on stderr, nothing on stdout, SystemExit(2)
UsageError == <<>>

\* the files os.path.isfile finds (cli.py line 338)
ExistingFiles == {"/usr/bin/dbt", "/opt/dbt"}
ConfigurePaths == ExistingFiles \cup {"/nowhere/dbt", "/usr/bin"}

\* run_configure_dbt_path without the test of line 338
run_configure_dbt_path_unchecked(store, path) ==
    [val |-> PyStr(<<"dbt path configured to: ", path>>),
     config |-> [store EXCEPT !.dbt_path = path]]

\* run_configure_dbt_path (cli.py lines 333-342): the string returned and
\* the store afterwards; set_config writes the key of the store
run_configure_dbt_path(store, path) ==
    IF path \notin ExistingFiles
    THEN [val |-> PyStr(<<"Error: File not found at ", path>>), config |-> store]
    ELSE [val |-> PyStr(<<"dbt path configured to: ", path>>),
          config |-> [store EXCEPT !.dbt_path = path]]

(***************************************************************************)
(* SpecTool: one tool call, or one run of the command line, from the call  *)
(* of execute_dbt_command to the string returned or printed                *)
(***************************************************************************)
\* [{"name":1}]
TextNameInt == <<"[">> \o TokNamed \o <<"]">>

\* a listing of n resources, one JSON object a line
ResourceLines(n) ==
    LinesText([i \in 1..n |-> ResourceText(<<"m", DigitChar(i)>>, KindModel)])

ToolTexts ==
    { <<>>, TextLines, TextTestData, TextModels, TextNameInt, TextNodes,
      json_dumps(CloudArray(<<1, 2>>), NoIndent),
      json_dumps(CloudArray(<<3>>), NoIndent),
      json_dumps(NodesObject(<<6>>), NoIndent) }
    \cup {ResourceLines(n) : n \in 1..MaxItems}

ToolOutcomes ==
    [returncode : {0, 1},
     stdout : {Bytes(t) : t \in ToolTexts} \cup {BadBytes},
     stderr : {Bytes(<<>>), Bytes(TextBoom)}]

CliFormats == {"text", "json"}

InitTool == InitWith({[n \in {"HOME"} |-> <<"/", "home", "u">>]}) /\ call = NoCall

\* a tool calls execute_dbt_command (tools.py lines 76, 124, 189, ...) and
\* so does a function of the command line (cli.py lines 133, 157, 188, ...)
ToolCalls(i) ==
    \E tool \in ToolNames, output_format \in OutputFormats, sp \in SpawnOutcomes :
        \/ Call(i, ToolCommand(tool, output_format), <<".">>, NoProfilesDir, sp)
        \/ Call(i, CliCommand(tool, output_format), <<".">>, NoProfilesDir, sp)

\* the function fn of invocation i returns r.val or raises r.raised
ReturnedFrom(i, fn, output_format, r) ==
    call' = [fn |-> fn, input |-> result[i].output, output_format |-> output_format,
             raised |-> r.raised, output |-> r.val]

\* the tool returns to the MCP server
ToolReturns(i) ==
    /\ pc[i] = "returned"
    /\ call.fn = "none"
    /\ \E tool \in {t \in ToolNames :
                       args[i].command = ToolCommand(t, ListFormat(args[i].command))} :
          ReturnedFrom(i, ToolFn[tool], ListFormat(args[i].command),
                       ToolResult(tool, args[i], result[i]))
    /\ UNCHANGED processVars

\* cli.py lines 442-456: main_async prints the string its function returned
PrintedResult(format, r) ==
    IF r.raised # "none" THEN r ELSE Return(PyStr(Printed(format, r.val.v)))

\* cli.py lines 442-456: the function returns to main_async, which prints
\* the string and returns; the process exits
CliReturns(i, format) ==
    /\ pc[i] = "returned"
    /\ call.fn = "none"
    /\ \E tool \in {t \in ToolNames :
                       args[i].command = CliCommand(t, ListFormat(args[i].command))} :
          ReturnedFrom(i, "main_async", format,
                       PrintedResult(format, CliResult(tool, args[i], result[i])))
    /\ pc' = [pc EXCEPT ![i] = "exited"]
    /\ UNCHANGED <<os_environ, environ0, config, args, child, result, exc>>

\* the process ends without a call of execute_dbt_command, having printed
\* text; words are the subcommand and its argument on the command line
CliExits(i, words, e, text, store) ==
    /\ pc[i] = "idle"
    /\ call.fn = "none"
    /\ call' = [fn |-> "main_async", input |-> PyStr(words), output_format |-> "text",
                raised |-> e, output |-> PyStr(text)]
    /\ config' = store
    /\ pc' = [pc EXCEPT ![i] = "exited"]
    /\ UNCHANGED <<os_environ, environ0, args, child, result, exc>>

\* cli.py lines 370-372: no subcommand on the command line
CliNoCommand(i) == CliExits(i, <<>>, "SystemExit(1)", NotFoundMessage("None"), config)

\* parse_args (cli.py line 112) for a subcommand argparse does not know
CliUnknownCommand(i) == CliExits(i, <<"frobnicate">>, "SystemExit(2)", UsageError, config)

\* cli.py lines 436-456 for the configure subcommand
CliConfigure(i, path, format) ==
    LET r == run_configure_dbt_path(config, path) IN
    CliExits(i, <<"configure", path>>, "none", Printed(format, r.val.v), r.config)

NextTool ==
    \/ \E i \in {j \in {1} : CallGuard(j)} : ToolCalls(i)
    \/ \E i \in {j \in {1} : CommunicateGuard(j)} :
          \E o \in ToolOutcomes : Communicate(i, o.returncode, o.stdout, o.stderr)
    \/ ToolReturns(1)
    \/ \E format \in CliFormats : CliReturns(1, format)
    \/ CliNoCommand(1)
    \/ CliUnknownCommand(1)
    \/ \E path \in ConfigurePaths, format \in CliFormats : CliConfigure(1, path, format)

SpecTool == InitTool /\ [][NextTool]_vars

(***************************************************************************)
(* The claims about the tools and the command line (SpecTool)              *)
(***************************************************************************)
\* the tool that was called has returned or raised
ToolDone == call.fn \in {ToolFn[tool] : tool \in ToolNames}

\* the name of the command in the messages of the tool that was called
ToolCalled == CHOOSE tool \in ToolNames : ToolFn[tool] = call.fn

\* C21: every tool returns a string and raises nothing, whatever
\* CommandResult execute_dbt_command returned (a launch failure with no
\* output and an array whose names are not strings included); for a failed
\* command the string starts with "Error executing dbt <subcommand>: " and
\* the error text, and contains the text of the output when the output is
\* not empty.
C21_ToolsReturnOneString ==
    ToolDone =>
        /\ call.raised = "none"
        /\ IsStr(call.output)
        /\ ~result[1].success =>
              /\ startswith(call.output.v,
                            <<"Error executing dbt ", ToolCalled, ": ">>
                            \o py_str(result[1].error))
              /\ ~Falsy(result[1].output) =>
                    Contains(<<"Output: ">> \o py_str(result[1].output), call.output.v)


\* the command line ran to the end of the process
CliDone == call.fn = "main_async"

\* ... and it ran a dbt command
CliRan == CliDone /\ args[1].command # <<>>

\* the operation asked for on the command line succeeded
CliSucceeded ==
    \/ CliRan /\ result[1].success
    \/ /\ ~CliRan
       /\ Len(call.input.v) = 2
       /\ call.input.v[1] = "configure"
       /\ call.input.v[2] \in ExistingFiles

\* C22: the process of the command line exits with status 0 only when the
\* operation succeeded; when the dbt command failed (launch failure
\* included) it prints the message of the failure and exits with status 1;
\* without a subcommand, or with one that is not recognized, it exits with
\* status 1.
C22_ExitStatusTellsFailure ==
    CliDone =>
        /\ ExitStatus(call.raised) = 0 => CliSucceeded
        /\ (CliRan /\ ~result[1].success) =>
              /\ ExitStatus(call.raised) = 1
              /\ Contains(<<"Error executing dbt ">>, call.output.v)
        /\ (~CliRan /\ (call.input.v = <<>> \/ call.input.v[1] # "configure")) =>
              ExitStatus(call.raised) = 1


\* the records of the JSON text a listing function returned
ListedRecords(r) == json_loads(r.val.v).val

\* the tool dbt_ls has returned the listing of a successful command in the
\* json format
ListedByTool == call.fn = "dbt_ls" /\ call.output_format = "json" /\ result[1].success

\* C23: for one successful CommandResult and the json format, the tool
\* dbt_ls, the function run_dbt_ls of the command line and ls_formatter
\* return the same records in the same order: none of them raises where
\* another returns, and the JSON texts they return hold the same array.
C23_ListingsAgree ==
    ListedByTool =>
        LET Agree(tool, cli, formatter) ==
                /\ tool.raised = cli.raised
                /\ tool.raised = formatter.raised
                /\ tool.raised = "none" =>
                      /\ ListedRecords(tool) = ListedRecords(cli)
                      /\ ListedRecords(tool) = ListedRecords(formatter)
        IN  Agree([raised |-> call.raised, val |-> call.output],
                  run_dbt_ls("json", result[1]),
                  ls_formatter(result[1].output, "json"))


\* the number of resources dbt listed, one JSON object a line, when the
\* stdout of the child of task 1 is such a listing; 0 when it is not
ListedLines ==
    IF \E n \in 1..MaxItems : child[1].stdout = Bytes(ResourceLines(n))
    THEN CHOOSE n \in 1..MaxItems : child[1].stdout = Bytes(ResourceLines(n))
    ELSE 0

\* the listing pipeline has run on a listing of resources
ListingParsed == pc[1] = "returned" /\ result[1].success /\ ListedLines > 0

\* C29: the listing pipeline loses no resource: when the stdout of a
\* successful command is N >= 1 lines, each a JSON object with name and
\* resource_type, parse_dbt_list_output gives exactly N records for the
\* output execute_dbt_command decoded, N = 1 included.
C29_ListingLosesNoResource ==
    ListingParsed =>
        LET Kept(parsed) ==
                /\ parsed.raised = "none"
                /\ IsList(parsed.val)
                /\ Len(parsed.val.v) = ListedLines
        IN  Kept(parse_dbt_list_output(result[1].output))


\* parse_dbt_list_output has returned for a nodes object or an array
ParsedValue == Parsed /\ (IsList(call.input) \/ (IsDict(call.input) /\ HasKey(call.input, NodesKey)))

\* C30: parse_dbt_list_output gives the same result for a JSON text and
\* for the value the text parses to: for a nodes object or an array v,
\* parse_dbt_list_output of json.dumps(v) raises what parse_dbt_list_output
\* of v raises, and returns a value equal to the one it returns for v.
C30_TextAndValueParseAlike ==
    ParsedValue =>
        LET Alike(of_text) ==
                /\ of_text.raised = call.raised
                /\ call.raised = "none" => PyEq(of_text.val, call.output)
        IN  Alike(parse_dbt_list_output(PyStr(json_dumps(call.input, NoIndent))))


(***************************************************************************)
(* The claim about the launches of one invocation (Spec)                   *)
(***************************************************************************)
\* what invocation i has launched
Launch(i) == [launched |-> child[i].launched, argv |-> child[i].argv,
              cwd |-> child[i].cwd, env |-> child[i].env]

\* invocation i has returned after its one attempt: either it launched a
\* child that has exited, or the launch raised and there is no child
AttemptedOnce(i) ==
    \/ child[i].launched /\ child[i].exited /\ exc[i] \notin {"FileNotFoundError", "PermissionError"}
    \/ ~child[i].launched /\ ~child[i].exited /\ exc[i] \in {"FileNotFoundError", "PermissionError"}

\* C27: a command is executed and reported exactly once.  An invocation
\* of execute_dbt_command that has been called is never called again; the
\* child it launched is never launched again; once it has returned its
\* CommandResult, the result and the child stay what they are, after a
\* non-zero exit and after a launch failure too; and when it returns it
\* has attempted exactly one launch.
C27_ExecutedAndReportedOnce ==
    [][\A i \in Tasks :
          /\ pc[i] # "idle" => pc'[i] # "idle"
          /\ child[i].launched => Launch(i)' = Launch(i)
          /\ pc[i] = "returned" =>
                /\ pc'[i] = "returned"
                /\ result'[i] = result[i]
                /\ child'[i] = child[i]
                /\ exc'[i] = exc[i]
          /\ pc'[i] = "returned" => AttemptedOnce(i)']_vars

\* invocation 1 launched a child that exited with a status that is not 0,
\* the launch of invocation 2 failed, and both have returned their failure
C27_Witness ==
    /\ pc[1] = "returned" /\ child[1].launched /\ child[1].returncode # 0
    /\ ~result[1].success /\ result[1].returncode = child[1].returncode
    /\ pc[2] = "returned" /\ ~child[2].launched /\ exc[2] = "FileNotFoundError"
    /\ ~result[2].success /\ result[2].returncode = -1


(***************************************************************************)
(* SpecEnv: calls of load_environment and one invocation of                *)
(* execute_dbt_command in a process whose HOME is absent, a normal path,   *)
(* a path with a trailing or a doubled slash, or empty                     *)
(***************************************************************************)
HomeValues ==
    { <<"/", "home", "u">>, <<"/", "home", "u", "">>, <<"/", "home", "", "u">>,
      <<"rel", "x">>, <<>> }

EnvironsWithHome == {[n \in {"HOME"} |-> home] : home \in HomeValues}

InitEnv == InitWith({EmptyEnv} \cup EnvironsWithHome) /\ call = NoCall

\* load_environment(project_dir) returns the mapping loaded.env_vars and
\* leaves os.environ as load_dotenv wrote it
LoadReturns(project_dir, loaded) ==
    /\ os_environ' = loaded.environ
    /\ call' = [fn |-> "load_environment", input |-> PyStr(project_dir),
                output_format |-> "json", raised |-> "none",
                output |-> [t |-> "environ", v |-> loaded.env_vars]]
    /\ UNCHANGED <<environ0, config, pc, args, child, result, exc>>

\* a call of load_environment, which runs without suspension
LoadEnvironment(project_dir) ==
    LoadReturns(project_dir, load_environment(os_environ, project_dir, config.env_file))

NextEnv ==
    \/ \E d \in ProjectDirs : LoadEnvironment(d)
    \/ \E i \in {j \in {1} : CallGuard(j)} :
          \E d \in ProjectDirs, p \in ProfilesDirs, sp \in {"ok", "FileNotFoundError"} :
             Call(i, <<"run">>, d, p, sp)
    \/ \E i \in {j \in {1} : CommunicateGuard(j)} :
          \E o \in SmallOutcomes : Communicate(i, o.returncode, o.stdout, o.stderr)

SpecEnv == InitEnv /\ [][NextEnv]_vars

(***************************************************************************)
(* The claims about the environment (SpecEnv)                              *)
(***************************************************************************)
\* the step is a call of load_environment on the directory d
LoadedFrom(d) == pc' = pc /\ call'.fn = "load_environment" /\ call'.input = PyStr(d)

\* the names an environment file of some project directory defines, that
\* the process was started without and that the program does not set
FileOnlyNames ==
    (UNION {DOMAIN EnvFileOf(d, config.env_file).vars : d \in ProjectDirs})
        \ (DOMAIN environ0 \cup {"HOME"}
           \cup IF pc[1] = "idle" THEN {} ELSE {"DBT_PROFILES_DIR"})

\* C24: load_environment(d) returns the process environment overlaid with
\* the names of the environment file of d when d has one: every name of
\* os.environ with its value, every other name of the file with the
\* value the file gives, HOME, and nothing else.  When d has no
\* environment file the mapping it returns holds no name that only the
\* environment file of another directory defines.
C24_NoLeakFromAnotherDirectory ==
    [][\A d \in ProjectDirs :
          LoadedFrom(d) =>
              LET file == EnvFileOf(d, config.env_file)
                  returned == call'.output.v
              IN  IF file.exists
                  THEN /\ DOMAIN returned = DOMAIN os_environ \cup DOMAIN file.vars \cup {"HOME"}
                       /\ \A n \in DOMAIN os_environ : returned[n] = os_environ[n]
                       /\ \A n \in DOMAIN file.vars \ DOMAIN os_environ :
                             returned[n] = file.vars[n]
                  ELSE DOMAIN returned \cap FileOnlyNames = {}]_vars


\* the step is the call of invocation i, up to the launch of its child
Called(i) == pc[i] = "idle" /\ pc'[i] # "idle"

\* C26: execute_dbt_command sets HOME in the process-wide environment
\* only when HOME is absent: when HOME is present before the invocation,
\* the invocation leaves its value in os.environ and gives the child that
\* value; and the child is launched with both HOME and DBT_PROFILES_DIR
\* set, in its own environment and in os.environ.
C26_HomeSetOnlyWhenAbsent ==
    [][\A i \in Tasks :
          Called(i) =>
              /\ "HOME" \in DOMAIN os_environ =>
                    /\ os_environ'["HOME"] = os_environ["HOME"]
                    /\ child'[i].launched => child'[i].env["HOME"] = os_environ["HOME"]
              /\ child'[i].launched =>
                    /\ {"HOME", "DBT_PROFILES_DIR"} \subseteq DOMAIN child'[i].env
                    /\ {"HOME", "DBT_PROFILES_DIR"} \subseteq DOMAIN os_environ']_vars


(***************************************************************************)
(* The runner with a mock mode (src/dbt_cli_mcp/command.py) and the tool   *)
(* dbt_run that calls it (src/dbt_cli_mcp/tools.py)                        *)
(***************************************************************************)
\* the configuration store: get(key, default)
get_config(store, key, default) == IF key \in DOMAIN store THEN store[key] ELSE default

\* load_environment of the runner with a mock mode, lines 34-45: a copy of
\* os.environ, updated from os.environ once load_dotenv has read the file
dbt_cli_mcp_load_environment(environ, project_dir, env_file) ==
    LET file == EnvFileOf(project_dir, env_file)
        environ1 == IF file.exists THEN load_dotenv(environ, file) ELSE environ
    IN  [env_vars |-> IF file.exists THEN EnvUpdate(environ, environ1) ELSE environ,
         environ |-> environ1]

\* an event loop whose subprocess_exec accepts text=True
create_subprocess_exec_any_text(text) == "ok"

\* asyncio.create_subprocess_exec(..., text=text), lines 92-99: the event
\* loop's subprocess_exec raises ValueError("text must be False") before it
\* creates a transport; "ok" is a child that was launched
create_subprocess_exec(text) == IF text THEN "ValueError" ELSE "ok"

\* lines 123-130: what except Exception returns for ValueError
MockExceptResult ==
    [success |-> FALSE, output |-> PyNone,
     error |-> PyStr(<<"text must be False">>), returncode |-> -1]

\* a mock response given as the argument mock_response
MockResponse(r) == [t |-> "dict", v |-> r]

\* the mock responses: the one of tests/test_command.py lines 55-60 and
\* one of a command that failed
MockResponses ==
    { MockResponse([success |-> TRUE, output |-> json_loads(TextTestData).val,
                    error |-> PyNone, returncode |-> 0]),
      MockResponse([success |-> FALSE, output |-> PyNone, error |-> PyStr(TextBoom),
                    returncode |-> 1]) }

\* what can be given for mock_mode and for mock_response
MockModes == {PyNone, PyBool(TRUE), PyBool(FALSE)}
MockResponseArgs == MockResponses \cup {PyNone}

\* lines 72-74: the mock mode of the invocation
MockMode(store, mock_mode) ==
    IF mock_mode.t = "none" THEN get_config(store, "mock_mode", FALSE) ELSE mock_mode.v

\* lines 72-130 up to the creation of the child: the call of invocation i
\* of the runner with a mock mode.  With a mock response in mock mode it
\* returns the response; otherwise it loads the environment and launches
\* the child, and returns what the except clause makes of an exception.
MockExecuteCalled(i, command, project_dir, mode, mock_response, loaded, spawn) ==
    /\ args' = [args EXCEPT ![i] = [command |-> command, project_dir |-> project_dir,
                                    profiles_dir |-> NoProfilesDir,
                                    mock_mode |-> mode,
                                    mock_response |-> mock_response]]
    /\ IF mode /\ mock_response.t # "none"
       THEN /\ result' = [result EXCEPT ![i] = mock_response.v]
            /\ pc' = [pc EXCEPT ![i] = "returned"]
            /\ UNCHANGED <<os_environ, child, exc>>
       ELSE /\ os_environ' = loaded.environ
            /\ IF spawn = "ok"
               THEN /\ child' = [child EXCEPT ![i] =
                                    [NoChild EXCEPT !.launched = TRUE,
                                                    !.argv = <<get_config(config, "dbt_path", "dbt")>>
                                                             \o command,
                                                    !.cwd = project_dir,
                                                    !.env = loaded.env_vars]]
                    /\ pc' = [pc EXCEPT ![i] = "communicate"]
                    /\ UNCHANGED <<result, exc>>
               ELSE /\ result' = [result EXCEPT ![i] = MockExceptResult]
                    /\ exc' = [exc EXCEPT ![i] = spawn]
                    /\ pc' = [pc EXCEPT ![i] = "returned"]
                    /\ UNCHANGED child
    /\ UNCHANGED <<environ0, config, call>>

\* execute_dbt_command(command, project_dir, mock_mode, mock_response) of
\* src/dbt_cli_mcp/command.py
MockExecute(i, command, project_dir, mock_mode, mock_response) ==
    /\ CallGuard(i)
    /\ MockExecuteCalled(i, command, project_dir, MockMode(config, mock_mode), mock_response,
                         dbt_cli_mcp_load_environment(os_environ, project_dir,
                                                      get_config(config, "env_file", ".env")),
                         create_subprocess_exec(TRUE))

\* the tool dbt_run of src/dbt_cli_mcp/tools.py, lines 79-90: in mock mode
\* it loads the mock response of "run", which is fixture, or None when the
\* file is missing or cannot be read
MockDbtRun(i, project_dir, fixture) ==
    LET mock_mode == get_config(config, "mock_mode", FALSE) IN
    MockExecute(i, <<"run">>, project_dir, PyBool(mock_mode),
                IF mock_mode THEN fixture ELSE PyNone)

(***************************************************************************)
(* SpecMock: invocations of the runner with a mock mode, with the mock     *)
(* mode of the configuration store on, off and not set                     *)
(***************************************************************************)
MockConfigs ==
    { [dbt_path |-> "dbt", env_file |-> ".env"],
      [dbt_path |-> "dbt", env_file |-> ".env", mock_mode |-> TRUE],
      [dbt_path |-> "dbt", env_file |-> ".env", mock_mode |-> FALSE] }

InitMock ==
    /\ os_environ \in InitialEnvirons
    /\ environ0 = os_environ
    /\ config \in MockConfigs
    /\ pc = [i \in Tasks |-> "idle"]
    /\ args = [i \in Tasks |-> NoArgs]
    /\ child = [i \in Tasks |-> NoChild]
    /\ result = [i \in Tasks |-> NoResult]
    /\ exc = [i \in Tasks |-> "none"]
    /\ call = NoCall

NextMock ==
    \/ \E i \in {j \in Tasks : CallGuard(j)} :
          \E c \in Commands, d \in ProjectDirs, m \in MockModes, r \in MockResponseArgs :
             MockExecute(i, c, d, m, r)
    \/ \E i \in {j \in Tasks : CallGuard(j)} :
          \E d \in ProjectDirs, fixture \in MockResponseArgs :
             MockDbtRun(i, d, fixture)

SpecMock == InitMock /\ [][NextMock]_vars

(***************************************************************************)
(* The claim about the mock mode (SpecMock)                                *)
(***************************************************************************)
\* invocation i of the runner has been called in mock mode
CalledInMockMode(i) == pc[i] # "idle" /\ args[i].mock_mode

InitConfig == InitRun

\* run_configure_dbt_path(path) returns configured.val and leaves the
\* store as configured.config
ConfigureReturns(path, configured) ==
    /\ config' = configured.config
    /\ call' = [fn |-> "run_configure_dbt_path", input |-> PyStr(<<path>>),
                output_format |-> "text", raised |-> "none", output |-> configured.val]
    /\ UNCHANGED <<os_environ, environ0, pc, args, child, result, exc>>

ConfigureDbtPath(path) == ConfigureReturns(path, run_configure_dbt_path(config, path))

NextConfig ==
    \/ \E path \in ConfigurePaths : ConfigureDbtPath(path)
    \/ \E i \in {j \in Tasks : CallGuard(j)} :
          \E c \in Commands, sp \in {"ok", "FileNotFoundError"} :
             Call(i, c, <<".">>, NoProfilesDir, sp)
    \/ \E i \in {j \in Tasks : CommunicateGuard(j)} :
          \E o \in SmallOutcomes : Communicate(i, o.returncode, o.stdout, o.stderr)

SpecConfig == InitConfig /\ [][NextConfig]_vars

(***************************************************************************)
(* The claim about the configured path (SpecConfig)                        *)
(***************************************************************************)
\* the step is a call of run_configure_dbt_path on path
Configured(path) ==
    /\ pc' = pc
    /\ call'.fn = "run_configure_dbt_path"
    /\ call'.input = PyStr(<<path>>)

\* C28: run_configure_dbt_path called with a path that is not an existing
\* file returns an error string and leaves the configured path as it was;
\* called with an existing file it sets the path.  An invocation launches
\* its child with argv = the path configured when it is called, followed
\* by the command arguments unchanged, and no step of execute_dbt_command
\* writes the configuration.
C28_ConfiguredPathIsLaunched ==
    [][/\ \A path \in ConfigurePaths :
             Configured(path) =>
                 IF path \in ExistingFiles
                 THEN config' = [config EXCEPT !.dbt_path = path]
                 ELSE /\ config' = config
                      /\ startswith(call'.output.v, <<"Error: File not found at ">>)
       /\ (\A path \in ConfigurePaths : ~Configured(path)) => config' = config
       /\ \A i \in Tasks :
             (Called(i) /\ child'[i].launched) =>
                 /\ child'[i].argv = <<config.dbt_path>> \o args'[i].command
                 /\ config' = config]_vars

\* invocation 1 launched the default executable; the path was then set to
\* an existing file and invocation 2 launched that file; a later call with
\* a path that is no file returned the error and left the path
C28_Witness ==
    /\ child[1].launched /\ child[1].argv = <<"dbt", "run">>
    /\ child[2].launched /\ child[2].argv = <<"/opt/dbt", "ls", "--output", "json">>
    /\ call.fn = "run_configure_dbt_path"
    /\ call.input = PyStr(<<"/nowhere/dbt">>)
    /\ call.output = PyStr(<<"Error: File not found at ", "/nowhere/dbt">>)
    /\ config.dbt_path = "/opt/dbt"
====
